---- MODULE Spec2Model ----
(***************************************************************************)
(* Model of the RAG backend of AI-Chatbot-Widget: the similarity search    *)
(* service (services/rag/retrieval.py) over the document_chunks and        *)
(* documents tables, the embedding service with its batching and retry     *)
(* loop (services/rag/embeddings.py), and the ingestion pipeline with its  *)
(* API handlers (services/rag/ingestion.py, api/rag/ingest.py).            *)
(*                                                                         *)
(* Similarities and distances are integers in units of 1/Scale, so that    *)
(* similarity = 1 - distance becomes Scale - distance.                     *)
(***************************************************************************)
EXTENDS Integers, Sequences, FiniteSets, TLC

\* ------------------------------------------------------------------------
\* Bounds
\* ------------------------------------------------------------------------

\* number of rows the document_chunks table may hold
MaxChunks == 3

\* largest max_results a search request asks for
MaxResults == 2

\* largest number of chunks the chunk stage produces for one document
MaxDocChunks == 2

\* longest list of texts given to embed_texts
MaxTexts == 3

\* largest batch_size an EmbeddingService is built with
MaxBatchSize == 2

\* largest max_retries an EmbeddingService is built with
MaxRetries == 5

\* self.dimensions of the EmbeddingService
Dimensions == 2

\* length of the vectors handed to cosine_similarity
CosineDims == 2

\* most chunks of a run whose embeddings are followed one by one
MaxRunChunks == 4

\* maxsize of the lru_cache of _embed_query_cached (100 in the source)
CacheMaxSize == 2

\* most _store_chunks calls looked at
MaxStoreCalls == 2

\* most pages of a PDF, and most chunks the splitter makes of one page
MaxPages == 2

MaxPageChunks == 2

\* most tokens of a text handed to chunk_text
MaxTokens == 3

\* most characters of a chunk's content handed to format_chunk_for_context
MaxContentLen == 11

\* ------------------------------------------------------------------------
\* Values
\* ------------------------------------------------------------------------

\* one unit of similarity is 1/Scale; similarity 1.0 is Scale
Scale == 3

Tenants == {"tA", "tB"}

\* a NULL embedding column
NULL == -1

\* the rows of app_private.documents: id, owner, title, source_type
Documents ==
    { [id |-> 1, tenant_id |-> "tA", title |-> "title1", source_type |-> "pdf"],
      [id |-> 2, tenant_id |-> "tB", title |-> "title2", source_type |-> "html"] }

DocumentIds == {d.id : d \in Documents}

\* embeddings are points on a line; the query embedding is the point 0
Embeddings == 0 .. 2

QueryEmbedding == 0

\* filters of a search request: an empty set is an absent (or empty) filter
FilterChoices ==
    [document_ids : {{}, {1}, {2}}, source_types : {{}, {"pdf"}}]

Thresholds == 1 .. Scale

VARIABLES
    store,        \* rows of app_private.document_chunks
    searchResp,   \* result of the search call in progress, or NoResp
    pc,           \* position of each ingestion request handler
    req,          \* tenant and source kind of each ingestion request
    document,     \* the Document object each pipeline run works on
    docs,         \* pages the loader returned to each run
    num_chunks,   \* len(chunks): number of chunks each run produced
    exc,          \* the exception each run raised
    ingestion_progress,  \* api/rag/ingest.py: document_id -> last progress
    progress_callback,   \* IngestionPipeline._progress_callback (its key)
    running,      \* the handler the event loop is executing, 0 when idle
    apiResp,      \* response of the status or cancel request in progress
    cancelled,    \* document_ids logged as "Ingestion cancelled"
    reported,     \* the percentages each run passed to the progress callback
    cb_failed,    \* whether the progress callback raised during each run
    embedCall,    \* the embed_texts call in progress: its locals and outcome
    provider,     \* what the embedding provider was asked and what it answered
    lru,          \* the lru_cache of _embed_query_cached: coroutine objects,
                  \* least recently used first
    task,         \* the embed_query call of each caller
    evictions,    \* the queries the cache has evicted so far
    store_calls,  \* the arguments of the _store_chunks calls made so far
    chunkCall,    \* the chunking call in progress: its input and its chunks
    detectCall,   \* the detect_type call in progress: its input and result
    formatCall,   \* the format_chunk_for_context call in progress
    cosineCall,   \* the cosine_similarity call in progress
    batchCall,    \* the embed and store stages of a run, chunk by chunk
    redis_keys,   \* the rate-limit counters in Redis: count and time to live
    rlResp        \* what the rate-limit middleware did with the last request

NoResp == [kind |-> "none"]

\* the keys ratelimit:{tenant_id}:{endpoint_type} of two tenants
RateKeys == {"ratelimit:tA:default", "ratelimit:tB:default"}

\* a key Redis does not hold
NoKey == [count |-> 0, ttl |-> 0]

svars == <<store, searchResp>>

\* the calls of the progress callback
rvars == <<reported, cb_failed>>

ivars == <<pc, req, document, docs, num_chunks, exc, ingestion_progress,
           progress_callback, running, apiResp, cancelled, rvars>>

evars == <<embedCall, provider>>

qvars == <<lru, task, evictions>>

\* repeated _store_chunks calls, chunking calls, detect_type calls
pvars == <<store_calls, chunkCall, detectCall>>

\* calls of citation formatting and cosine_similarity, the embeddings of a
\* run's chunks, the rate-limit middleware
fvars == <<formatCall, cosineCall, batchCall, redis_keys, rlResp>>

\* the variables outside search, ingestion and embed_texts
xvars == <<qvars, pvars, fvars>>

vars == <<store, searchResp, pc, req, document, docs, num_chunks, exc,
          ingestion_progress, progress_callback, running, apiResp, cancelled,
          reported, cb_failed, embedCall, provider, lru, task, evictions,
          store_calls, chunkCall, detectCall, formatCall, cosineCall, batchCall,
          redis_keys, rlResp>>

\* ------------------------------------------------------------------------
\* The vector store
\* ------------------------------------------------------------------------

\* pgvector's <=> operator: cosine distance of two embeddings
Distance(e, q) == IF e >= q THEN e - q ELSE q - e

SourceTypeOf(docId) == (CHOOSE d \in Documents : d.id = docId).source_type

\* the primary key of a chunk row: distinct rows have distinct ids
RowId(tenant_id, document_id, embedding) ==
    (IF tenant_id = "tA" THEN 100 ELSE 200) + 10 * document_id + (embedding + 1)

Min(a, b) == IF a <= b THEN a ELSE b

Take(s, n) == SubSeq(s, 1, Min(n, Len(s)))

SeqToSet(s) == {s[i] : i \in 1 .. Len(s)}

\* distance_threshold = 1 - similarity_threshold
DistanceThresholdNone(similarity_threshold) == Scale + 1

DistanceThreshold(similarity_threshold) == Scale - similarity_threshold

\* the WHERE clause of the similarity search, filter conditions included
MatchesWhereAnyTenant(row, tenant_id, match_threshold, filters) ==
    /\ \/ row.tenant_id = tenant_id
       \/ (filters.document_ids # {} /\ row.document_id \in filters.document_ids)
    /\ row.embedding # NULL
    /\ Distance(row.embedding, QueryEmbedding) < match_threshold
    /\ (filters.source_types # {} => row.source_type \in filters.source_types)

MatchesWhere(row, tenant_id, match_threshold, filters) ==
    /\ row.tenant_id = tenant_id
    /\ row.embedding # NULL
    /\ Distance(row.embedding, QueryEmbedding) < match_threshold
    /\ (filters.document_ids # {} => row.document_id \in filters.document_ids)
    /\ (filters.source_types # {} => row.source_type \in filters.source_types)

\* every order in which the store may return the rows S for
\* ORDER BY embedding <=> :query_embedding (rows of equal distance in any order)
RECURSIVE AnyOrders(_)
AnyOrders(S) ==
    IF S = {} THEN {<<>>}
    ELSE UNION { { <<c>> \o t : t \in AnyOrders(S \ {c}) } : c \in S }

RECURSIVE OrderByDistance(_)
OrderByDistance(S) ==
    IF S = {} THEN {<<>>}
    ELSE UNION { { <<c>> \o t : t \in OrderByDistance(S \ {c}) } :
                 c \in { x \in S : \A y \in S :
                            Distance(x.embedding, QueryEmbedding)
                              <= Distance(y.embedding, QueryEmbedding) } }

\* row -> dictionary with distance and similarity = 1 - distance
RowToDict(row) ==
    [id |-> row.id, document_id |-> row.document_id,
     source_type |-> row.source_type,
     distance |-> Distance(row.embedding, QueryEmbedding),
     similarity |-> Scale - Distance(row.embedding, QueryEmbedding)]

Map(f(_), s) == [i \in 1 .. Len(s) |-> f(s[i])]

\* the result sets _execute_similarity_search may return
ExecuteSimilaritySearch(rows, tenant_id, similarity_threshold, max_results, filters) ==
    LET matching == { r \in rows :
                        MatchesWhere(r, tenant_id,
                                     DistanceThreshold(similarity_threshold), filters) }
    IN  { Map(RowToDict, Take(o, max_results)) : o \in OrderByDistance(matching) }

\* Step 3 of search: threshold filter, then the first max_results
FilterResultsNoLimit(results, similarity_threshold, max_results) ==
    SelectSeq(results, LAMBDA r : r.similarity >= similarity_threshold)

FilterResults(results, similarity_threshold, max_results) ==
    Take(SelectSeq(results, LAMBDA r : r.similarity >= similarity_threshold),
         max_results)

\* the documents the enrichment query reads
EnrichLookup(tenant_id, document_ids) ==
    { d \in Documents : d.id \in document_ids /\ d.tenant_id = tenant_id }

EnrichWithSourceInfo(tenant_id, chunks) ==
    LET document_ids == {c.document_id : c \in SeqToSet(chunks)}
        lookup == EnrichLookup(tenant_id, document_ids)
        Title(c) == IF \E d \in lookup : d.id = c.document_id
                    THEN (CHOOSE d \in lookup : d.id = c.document_id).title
                    ELSE "Unknown Document"
        Enrich(c) == [id |-> c.id, document_id |-> c.document_id,
                      source_type |-> c.source_type,
                      distance |-> c.distance, similarity |-> c.similarity,
                      document_title |-> Title(c)]
    IN  Map(Enrich, chunks)

RECURSIVE SumSimilarity(_)
SumSimilarity(s) ==
    IF s = <<>> THEN 0 ELSE s[1].similarity + SumSimilarity(Tail(s))

\* avg_similarity as the fraction <<numerator, denominator>>; 0.0 if empty
AvgSimilarity(chunks) ==
    IF chunks = <<>> THEN <<0, 1>> ELSE <<SumSimilarity(chunks), Len(chunks)>>

\* DocumentChunkResponse built from an enriched chunk
ChunkResponseDistance(chunk) ==
    [id |-> chunk.id, document_id |-> chunk.document_id,
     source_type |-> chunk.source_type,
     similarity |-> chunk.distance]

ChunkResponse(chunk) ==
    [id |-> chunk.id, document_id |-> chunk.document_id,
     source_type |-> chunk.source_type,
     similarity |-> chunk.similarity]

\* RetrievedChunk built for citation from a DocumentChunkResponse:
\* document_title = getattr(chunk, "document_title", "Unknown")
RetrievedChunkOf(chunk) ==
    [chunk_id |-> chunk.id, document_id |-> chunk.document_id,
     document_title |-> IF "document_title" \in DOMAIN chunk
                        THEN chunk.document_title
                        ELSE "Unknown",
     source_type |-> chunk.source_type,
     similarity |-> chunk.similarity]

\* ------------------------------------------------------------------------
\* Search actions
\* ------------------------------------------------------------------------

SInit ==
    /\ store = {}
    /\ searchResp = NoResp

\* a row is written to app_private.document_chunks; source_type mirrors the parent
InsertChunk(tenant_id, document_id, embedding) ==
    /\ searchResp = NoResp
    /\ Cardinality(store) < MaxChunks
    /\ LET row == [id |-> RowId(tenant_id, document_id, embedding),
                   tenant_id |-> tenant_id, document_id |-> document_id,
                   source_type |-> SourceTypeOf(document_id),
                   embedding |-> embedding]
       IN  /\ row \notin store
           /\ store' = store \cup {row}
    /\ UNCHANGED <<searchResp, ivars, evars, xvars>>

\* SimilaritySearchService.search; embedOk is the outcome of embed_query
Search(tenant_id, similarity_threshold, max_results, filters, embedOk) ==
    /\ searchResp = NoResp
    /\ IF ~embedOk
       THEN searchResp' = [kind |-> "raised", tenant_id |-> tenant_id]
       ELSE \E results \in ExecuteSimilaritySearch(store, tenant_id,
                               similarity_threshold, max_results * 2, filters) :
              LET filtered_results ==
                      FilterResults(results, similarity_threshold, max_results)
                  enriched_results == EnrichWithSourceInfo(tenant_id, filtered_results)
              IN  searchResp' =
                      [kind |-> "result",
                       tenant_id |-> tenant_id,
                       similarity_threshold |-> similarity_threshold,
                       max_results |-> max_results,
                       filters |-> filters,
                       results |-> results,
                       enriched_results |-> enriched_results,
                       chunks |-> Map(ChunkResponse, enriched_results),
                       retrieved_chunks |->
                           Map(RetrievedChunkOf,
                               Map(ChunkResponse, enriched_results)),
                       total_found |-> Len(results),
                       avg_similarity |-> AvgSimilarity(enriched_results)]
    /\ UNCHANGED <<store, ivars, evars, xvars>>

\* the caller takes the result of the search call
SearchReturn ==
    /\ searchResp # NoResp
    /\ searchResp' = NoResp
    /\ UNCHANGED <<store, ivars, evars, xvars>>

SearchNext ==
    \/ \E t \in Tenants, d \in DocumentIds, e \in Embeddings \cup {NULL} :
          InsertChunk(t, d, e)
    \/ \E t \in Tenants, thr \in Thresholds, k \in 1 .. MaxResults,
          f \in FilterChoices, ok \in BOOLEAN :
          Search(t, thr, k, f, ok)
    \/ SearchReturn

\* ------------------------------------------------------------------------
\* Embedding generation: services/rag/embeddings.py
\* ------------------------------------------------------------------------

\* self.retry_delays, in seconds
RetryDelays == <<1, 2, 4>>

\* texts a caller passes: plain, padded with blanks, empty, blank only
TextChoices == {"a", " b ", "", " "}

\* every list of at most MaxTexts texts
TextLists == UNION { [1 .. n -> TextChoices] : n \in 0 .. MaxTexts }

\* text.strip()
Strip(text) ==
    CASE text = " b " -> "b"
      [] text = " "   -> ""
      [] OTHER        -> text

\* 1-based index of the first text the validation loop rejects, 0 if none
FirstInvalidHeadOnly(texts) ==
    IF texts # <<>> /\ (texts[1] = "" \/ Strip(texts[1]) = "") THEN 1 ELSE 0

FirstInvalid(texts) ==
    IF \E i \in 1 .. Len(texts) : texts[i] = "" \/ Strip(texts[i]) = ""
    THEN CHOOSE i \in 1 .. Len(texts) :
            /\ texts[i] = "" \/ Strip(texts[i]) = ""
            /\ \A j \in 1 .. i - 1 : ~(texts[j] = "" \/ Strip(texts[j]) = "")
    ELSE 0

\* the ValueError the validation loop raises for texts[i]
InputError(texts, i) ==
    [type |-> "ValueError",
     message |-> IF texts[i] = "" THEN "Invalid text at index"
                 ELSE "Empty text at index after cleaning",
     index |-> i - 1]

\* an errorless outcome
NoError == [type |-> "none"]

\* errors the provider raises: str(error).lower() as the set of its words,
\* and the status_code attribute (NULL when the error has none)
RateLimitError ==
    [type |-> "Exception", message |-> {"rate_limit_exceeded"}, status_code |-> NULL]

ServerError ==
    [type |-> "APIStatusError", message |-> {"internal", "error"}, status_code |-> 500]

ValidationError ==
    [type |-> "ValueError", message |-> {"invalid", "input"}, status_code |-> NULL]

BadRequestError ==
    [type |-> "APIStatusError", message |-> {"bad", "request"}, status_code |-> 400]

RetryableErrors == {RateLimitError, ServerError}

NonRetryableErrors == {ValidationError, BadRequestError}

ProviderErrors == RetryableErrors \cup NonRetryableErrors

\* _is_retryable_error: a pattern occurs in the message, or else the status code
IsRetryableErrorAlways(error) == TRUE

IsRetryableError(error) ==
    LET retryable_messages ==
            {"rate_limit_exceeded", "429", "503", "timeout", "connection", "network"}
    IN  IF error.message \cap retryable_messages # {}
        THEN TRUE
        ELSE IF error.status_code # NULL
             THEN error.status_code \in {429, 500, 502, 503, 504}
             ELSE FALSE

\* RuntimeError("Embedding generation failed after {max_retries} attempts: {e}")
TerminalError(max_retries, e) ==
    [type |-> "RuntimeError", attempts |-> max_retries, cause |-> e]

\* the IndexError of self.retry_delays[attempt]
DelayIndexError(attempt) == [type |-> "IndexError", index |-> attempt]

\* a component that is NaN (or infinite)
NaN == -999

IsFinite(x) == x # NaN

\* the first component of the provider's vector for a text identifies the text
TextCode(text) == IF text = "a" THEN 1 ELSE 2

\* what the vectors of the provider look like during one embed_texts call:
\* of the requested length, shorter, longer, with a NaN component
Shapes == {"ok", "short", "long", "nan", "long_nan"}

\* data.embedding for one input text
ProviderVector(text, shape) ==
    LET n == CASE shape = "short" -> Dimensions - 1
               [] shape \in {"long", "long_nan"} -> Dimensions + 1
               [] OTHER -> Dimensions
    IN  [i \in 1 .. n |->
            IF i = 1 THEN TextCode(text)
            ELSE IF i = n /\ shape \in {"nan", "long_nan"} THEN NaN ELSE 0]

RECURSIVE SumSquares(_)
SumSquares(v) == IF v = <<>> THEN 0 ELSE v[1] * v[1] + SumSquares(Tail(v))

\* the square root of a perfect square
Sqrt(n) == CHOOSE r \in 0 .. n : r * r <= n /\ (r + 1) * (r + 1) > n

\* np.linalg.norm: NaN when a component is NaN
Norm(v) ==
    IF \E i \in 1 .. Len(v) : ~IsFinite(v[i]) THEN NaN ELSE Sqrt(SumSquares(v))

\* _normalize_embedding: L2 normalisation, the length is kept; the vectors of
\* the model lie along the first axis, which makes the division exact
NormalizeEmbedding(embedding) ==
    LET norm == Norm(embedding)
    IN  IF norm # NaN /\ norm > 0
        THEN [i \in 1 .. Len(embedding) |-> embedding[i] \div norm]
        ELSE [i \in 1 .. Len(embedding) |-> 0]

\* the validation of one embedding in embed_texts
ValidatedEmbedding(embedding) ==
    LET normalized == IF Len(embedding) # Dimensions
                      THEN NormalizeEmbedding(embedding)
                      ELSE embedding
    IN  IF \E i \in 1 .. Len(normalized) : ~IsFinite(normalized[i])
        THEN [i \in 1 .. Dimensions |-> 0]
        ELSE normalized

\* batch_end = min(batch_start + self.batch_size, len(valid_texts))
BatchEndOneMore(batch_start, batch_size, n) == Min(batch_start + batch_size + 1, n)

BatchEnd(batch_start, batch_size, n) == Min(batch_start + batch_size, n)

\* valid_texts[batch_start:batch_end] of the call in progress
BatchTexts(c) ==
    SubSeq(c.valid_texts, c.batch_start + 1,
           BatchEnd(c.batch_start, c.batch_size, Len(c.valid_texts)))

\* no embed_texts call in progress
IdleCall == [pc |-> "idle"]

\* nothing asked of the provider yet. inputs holds the input of each
\* _embed_with_retry invocation (every attempt of it sends the same input),
\* num_calls counts the provider calls of the embed_texts call, batch_calls,
\* batch_failures and sleeps those of the latest _embed_with_retry invocation
NoProvider ==
    [shape |-> "none", inputs |-> <<>>, vectors |-> <<>>,
     num_calls |-> 0, failures |-> 0,
     batch_calls |-> 0, batch_failures |-> 0, sleeps |-> <<>>,
     outcome |-> NoError]

\* the log after one more provider call with the given input
LogCall(log, attempt, input) ==
    [log EXCEPT !.inputs = IF attempt = 0 THEN Append(@, input) ELSE @,
                !.num_calls = @ + 1,
                !.batch_calls = IF attempt = 0 THEN 1 ELSE @ + 1,
                !.batch_failures = IF attempt = 0 THEN 0 ELSE @,
                !.sleeps = IF attempt = 0 THEN <<>> ELSE @]

EInit ==
    /\ embedCall = IdleCall
    /\ provider = NoProvider

\* embed_texts up to its first provider call, on a service built with
\* batch_size and max_retries, while the provider answers with vectors of shape
EmbedTexts(texts, batch_size, max_retries, shape) ==
    /\ embedCall.pc = "idle"
    /\ LET c == [pc |-> "call", texts |-> texts, batch_size |-> batch_size,
                 max_retries |-> max_retries,
                 valid_texts |-> Map(Strip, texts),
                 batch_start |-> 0, attempt |-> 0, last_error |-> NoError,
                 all_embeddings |-> <<>>, error |-> NoError]
       IN  embedCall' =
             IF texts = <<>>
             THEN [c EXCEPT !.pc = "returned"]
             ELSE IF FirstInvalid(texts) > 0
                  THEN [c EXCEPT !.pc = "raised", !.valid_texts = <<>>,
                                 !.error = InputError(texts, FirstInvalid(texts))]
                  ELSE c
    /\ provider' = [NoProvider EXCEPT !.shape = shape]
    /\ UNCHANGED <<svars, ivars, xvars>>

\* async_client.embeddings.create returns one vector per input text; embed_texts
\* validates them and goes on to the next batch or returns
ProviderReturns ==
    /\ embedCall.pc = "call"
    /\ LET c == embedCall
           shape == provider.shape
           batch_texts == BatchTexts(c)
           embeddings == Map(LAMBDA t : ProviderVector(t, shape), batch_texts)
           validated_embeddings == Map(ValidatedEmbedding, embeddings)
           next_start == c.batch_start + c.batch_size
       IN  /\ embedCall' =
                [c EXCEPT !.all_embeddings = @ \o validated_embeddings,
                          !.batch_start = next_start,
                          !.attempt = 0,
                          !.last_error = NoError,
                          !.pc = IF next_start >= Len(c.valid_texts)
                                 THEN "returned" ELSE "call"]
           /\ provider' =
                [LogCall(provider, c.attempt, batch_texts)
                   EXCEPT !.vectors = @ \o embeddings,
                          !.outcome = [type |-> "ok"]]
    /\ UNCHANGED <<svars, ivars, xvars>>

\* async_client.embeddings.create raises e; the except block of
\* _embed_with_retry sleeps and retries, or raises
ProviderRaises(e) ==
    /\ embedCall.pc = "call"
    /\ LET c == embedCall
           log == [LogCall(provider, c.attempt, BatchTexts(c))
                     EXCEPT !.failures = @ + 1,
                            !.batch_failures = @ + 1,
                            !.outcome = e]
       IN  IF IsRetryableError(e)
           THEN IF c.attempt < c.max_retries - 1
                THEN IF c.attempt + 1 > Len(RetryDelays)
                     THEN /\ embedCall' =
                               [c EXCEPT !.pc = "raised", !.last_error = e,
                                         !.error = DelayIndexError(c.attempt)]
                          /\ provider' = log
                     ELSE /\ embedCall' =
                               [c EXCEPT !.attempt = @ + 1, !.last_error = e]
                          /\ provider' =
                               [log EXCEPT !.sleeps =
                                      Append(@, RetryDelays[c.attempt + 1])]
                ELSE /\ embedCall' =
                          [c EXCEPT !.pc = "raised", !.last_error = e,
                                    !.error = TerminalError(c.max_retries, e)]
                     /\ provider' = log
           ELSE /\ embedCall' =
                     [c EXCEPT !.pc = "raised", !.last_error = e, !.error = e]
                /\ provider' = log
    /\ UNCHANGED <<svars, ivars, xvars>>

\* the caller takes the result or the exception of embed_texts
EmbedTextsDone ==
    /\ embedCall.pc \in {"returned", "raised"}
    /\ embedCall' = IdleCall
    /\ provider' = NoProvider
    /\ UNCHANGED <<svars, ivars, xvars>>

\* the lists the caller may pass now: none while its call is in progress
NextTextLists == IF embedCall.pc = "idle" THEN TextLists ELSE {}

EmbedNext ==
    \/ \E texts \in NextTextLists, batch_size \in 1 .. MaxBatchSize,
          max_retries \in 1 .. MaxRetries, shape \in Shapes :
          EmbedTexts(texts, batch_size, max_retries, shape)
    \/ ProviderReturns
    \/ \E e \in ProviderErrors : ProviderRaises(e)
    \/ EmbedTextsDone

\* ------------------------------------------------------------------------
\* Query embeddings: embed_query and the lru_cache of _embed_query_cached
\* ------------------------------------------------------------------------

\* the callers of embed_query that the event loop interleaves
Tasks == {1, 2}

\* query texts after trimming, and the queries callers send
QueryKeys == {"a", "b", "c", "d"}

Queries == QueryKeys \cup {" b "}

IdleTask == [pc |-> "idle"]

\* RuntimeError raised by awaiting a coroutine that another task is awaiting
AwaitedAlready ==
    [type |-> "RuntimeError", message |-> "coroutine is being awaited already"]

\* RuntimeError raised by awaiting a coroutine that has finished
CannotReuse ==
    [type |-> "RuntimeError", message |-> "cannot reuse already awaited coroutine"]

\* the error embed_texts raises when the provider keeps failing
ProviderFailure == TerminalError(3, RateLimitError)

QueryCode(key) ==
    CASE key = "a" -> 1 [] key = "b" -> 2 [] key = "c" -> 3 [] OTHER -> 4

\* embeddings[0] of embed_texts([query])
QueryEmbeddingOf(key) ==
    [i \in 1 .. Dimensions |-> IF i = 1 THEN QueryCode(key) ELSE 0]

\* the coroutine object _embed_query_cached(self, key) returns, as the cache
\* stores it: awaited and suspended in its provider call
NewCoroutine(key) == [key |-> key, state |-> "suspended", ok |-> FALSE]

\* the coroutine object once its body has returned (ok) or raised
Finished(coro, ok) == [coro EXCEPT !.state = "finished", !.ok = ok]

CacheKeys(cache) == {cache[i].key : i \in 1 .. Len(cache)}

\* position of key in the cache
CachePos(cache, key) == CHOOSE i \in 1 .. Len(cache) : cache[i].key = key

\* a cache hit makes the entry the most recently used
CacheTouch(cache, key) ==
    LET i == CachePos(cache, key)
    IN  SubSeq(cache, 1, i - 1) \o SubSeq(cache, i + 1, Len(cache)) \o <<cache[i]>>

\* a cache miss stores the new entry; a full cache drops its least recently
\* used entry (maxsize)
CacheInsertUnbounded(cache, entry) == Append(cache, entry)

CacheInsert(cache, entry) ==
    IF Len(cache) >= CacheMaxSize
    THEN Append(SubSeq(cache, Len(cache) - CacheMaxSize + 2, Len(cache)), entry)
    ELSE Append(cache, entry)

QInit ==
    /\ lru = <<>>
    /\ task = [t \in Tasks |-> IdleTask]
    /\ evictions = {}

\* a result or exception of embed_query that its caller has yet to take
Undelivered == \E t \in Tasks : task[t].pc \in {"returned", "raised"}

\* embed_query(query) up to the first suspension: the lru_cache lookup of
\* _embed_query_cached(self, query.strip()), which returns the cached
\* coroutine object or calls the function to create one, then the await of
\* that object, which runs embed_texts up to its provider call. cached
\* tells whether the awaited coroutine object is (still) the cache's entry.
EmbedQuery(t, query) ==
    /\ ~Undelivered
    /\ task[t].pc = "idle"
    /\ LET key == Strip(query)
           call == [pc |-> "awaiting", key |-> key, cached |-> TRUE,
                    found |-> "miss", evicted_before |-> key \in evictions,
                    called_provider |-> FALSE, result |-> <<>>, error |-> NoError]
       IN  IF key \in CacheKeys(lru)
           THEN LET coro == lru[CachePos(lru, key)]
                IN  /\ lru' = CacheTouch(lru, key)
                    /\ task' = [task EXCEPT ![t] =
                          IF coro.state = "suspended"
                          THEN [call EXCEPT !.pc = "raised", !.found = "suspended",
                                            !.error = AwaitedAlready]
                          ELSE [call EXCEPT !.pc = "raised",
                                            !.found = IF coro.ok
                                                      THEN "finished_ok"
                                                      ELSE "finished_failed",
                                            !.error = CannotReuse]]
                    /\ UNCHANGED evictions
           ELSE LET cache == CacheInsert(lru, NewCoroutine(key))
                    evicted == CacheKeys(lru) \ CacheKeys(cache)
                IN  /\ lru' = cache
                    /\ task' = [u \in Tasks |->
                          IF u = t
                          THEN [call EXCEPT !.called_provider = TRUE]
                          ELSE IF task[u].pc = "awaiting" /\ task[u].key \in evicted
                               THEN [task[u] EXCEPT !.cached = FALSE]
                               ELSE task[u]]
                    /\ evictions' = (evictions \cup evicted) \ {key}
    /\ UNCHANGED <<svars, ivars, evars, pvars, fvars>>

\* the provider call of an awaited coroutine completes: embed_query returns
\* embeddings[0], or raises what embed_texts raised
QueryProviderReturns(t, ok) ==
    /\ ~Undelivered
    /\ task[t].pc = "awaiting"
    /\ LET call == task[t]
       IN  /\ task' = [task EXCEPT ![t] =
                 IF ok
                 THEN [call EXCEPT !.pc = "returned",
                                   !.result = QueryEmbeddingOf(call.key)]
                 ELSE [call EXCEPT !.pc = "raised", !.error = ProviderFailure]]
           /\ lru' = IF call.cached
                     THEN [lru EXCEPT ![CachePos(lru, call.key)] = Finished(@, ok)]
                     ELSE lru
    /\ UNCHANGED <<evictions, svars, ivars, evars, pvars, fvars>>

\* the caller takes the vector or the exception
EmbedQueryDone(t) ==
    /\ task[t].pc \in {"returned", "raised"}
    /\ task' = [task EXCEPT ![t] = IdleTask]
    /\ UNCHANGED <<lru, evictions, svars, ivars, evars, pvars, fvars>>

QueryNext ==
    \/ \E t \in Tasks, query \in Queries : EmbedQuery(t, query)
    \/ \E t \in Tasks, ok \in BOOLEAN : QueryProviderReturns(t, ok)
    \/ \E t \in Tasks : EmbedQueryDone(t)

\* ------------------------------------------------------------------------
\* Ingestion: api/rag/ingest.py and services/rag/ingestion.py
\* ------------------------------------------------------------------------

\* the ingestion requests the API serves, possibly concurrently
Runs == {1, 2}

Kinds == {"pdf", "url", "text"}

\* uuid.uuid4() of the handler (the progress key) and of the pipeline (document.id)
KeyOf(r) == 10 * r + 1

DocIdOf(r) == 10 * r + 2

\* the document_id values a client may send: an id nobody issued, keys, document ids
ClientIds == {0} \cup {KeyOf(r) : r \in Runs} \cup {DocIdOf(r) : r \in Runs}

Absent == -1

NoDoc == [status |-> "none"]

NoReq == [kind |-> "none"]

NoExc == "none"

\* _update_progress: the registered callback records the progress under its own key
UpdateProgress(progress, callback, percent) ==
    IF callback = 0 THEN progress ELSE [progress EXCEPT ![callback] = percent]

\* the checkpoints of each stage, in the order _update_progress is called
StartCheckpoints == <<5>>

LoadCheckpoints(ok) == IF ok THEN <<10, 30>> ELSE <<10>>

ChunkCheckpoints(ok) == IF ok THEN <<35, 60>> ELSE <<35>>

EmbedCheckpoints(n) == IF n = 0 THEN <<65, 90>> ELSE <<65>>

EmbeddedCheckpoints(ok) == IF ok THEN <<90>> ELSE <<>>

StoreCheckpointsAlwaysComplete(ok) == <<95, 100>>

StoreCheckpoints(ok) == IF ok THEN <<95, 100>> ELSE <<95>>

\* the positions, within the checkpoints of one stage, at which the
\* registered callback may raise
CallbackRaises == SUBSET {1, 2}

\* whether the callback raised at one of the checkpoints percents
Raised(percents, raises) == raises \cap (1 .. Len(percents)) # {}

\* _update_progress at each checkpoint of one stage: a callback that raises
\* records nothing and its exception is logged
UpdateProgressAll(progress, callback, percents, raises) ==
    LET Step(p, i) ==
            IF i > Len(percents) \/ i \in raises
            THEN p
            ELSE UpdateProgress(p, callback, percents[i])
    IN  Step(Step(progress, 1), 2)

\* the exception that leaves a stage: the stage's own; _update_progress
\* raises none
StageOutcomeCallbackPropagates(stage_exc, callback_raised) ==
    IF callback_raised THEN "callback failed" ELSE stage_exc

StageOutcome(stage_exc, callback_raised) == stage_exc

\* where the run goes after a stage: on to the next stage, or into the
\* except block when the stage raised e
NextStageIgnoreFailure(next, e) == next

NextStage(next, e) == IF e = "none" THEN next ELSE "except"

\* _create_document_record
CreateDocumentRecordDefaultStatus(id, tenant_id, status) ==
    [id |-> id, tenant_id |-> tenant_id, status |-> "pending", chunk_count |-> 0,
     metadata |-> NoExc, error_message |-> NoExc]

CreateDocumentRecord(id, tenant_id, status) ==
    [id |-> id, tenant_id |-> tenant_id, status |-> status, chunk_count |-> 0,
     metadata |-> NoExc, error_message |-> NoExc]

\* the success path: status ready, chunk_count = len(chunks)
MarkReady(doc, n) == [doc EXCEPT !.status = "ready", !.chunk_count = n]

\* the except path: status error, metadata["error_message"] = str(e)
MarkErrorNoMessage(doc, e) == [doc EXCEPT !.status = "error"]

MarkError(doc, e) == [doc EXCEPT !.status = "error", !.metadata = e]

\* _store_chunks run up to (not including) chunk index upto: the chunk models
\* are built and logged, no row is written
StoreChunksInsert(rows, document_id, tenant_id, upto) ==
    rows \cup { [id |-> 1000 * document_id + idx, tenant_id |-> tenant_id,
                 document_id |-> document_id, source_type |-> "text",
                 embedding |-> QueryEmbedding] : idx \in 0 .. upto - 1 }

StoreChunks(rows, document_id, tenant_id, upto) == rows

\* _cleanup_failed_document: logs, deletes nothing
CleanupFailedDocument(rows, doc) == rows

\* StatusResponse of get_ingestion_status
StatusBody(document_id) ==
    IF document_id \in DOMAIN ingestion_progress
         /\ ingestion_progress[document_id] # Absent
    THEN [document_id |-> document_id, status |-> "processing",
          progress |-> ingestion_progress[document_id], chunk_count |-> 0,
          error |-> NoExc]
    ELSE [document_id |-> document_id, status |-> "unknown", progress |-> 0,
          chunk_count |-> 0, error |-> "Document not found"]

Init ==
    /\ SInit
    /\ pc = [r \in Runs |-> "idle"]
    /\ req = [r \in Runs |-> NoReq]
    /\ document = [r \in Runs |-> NoDoc]
    /\ docs = [r \in Runs |-> 0]
    /\ num_chunks = [r \in Runs |-> 0]
    /\ exc = [r \in Runs |-> NoExc]
    /\ ingestion_progress = [k \in {KeyOf(r) : r \in Runs} |-> Absent]
    /\ progress_callback = 0
    /\ running = 0
    /\ apiResp = NoResp
    /\ cancelled = {}
    /\ reported = [r \in Runs |-> <<>>]
    /\ cb_failed = [r \in Runs |-> FALSE]
    /\ EInit
    /\ QInit
    /\ store_calls = <<>>
    /\ chunkCall = [pc |-> "idle"]
    /\ detectCall = [pc |-> "idle"]
    /\ formatCall = [pc |-> "idle"]
    /\ cosineCall = [pc |-> "idle"]
    /\ batchCall = [pc |-> "idle"]
    /\ redis_keys = [key \in RateKeys |-> NoKey]
    /\ rlResp = NoResp

\* ingest_pdf / ingest_url / ingest_text up to the pipeline's load stage:
\* request validation, progress key, set_progress_callback, progress 5,
\* document record created in status processing
IngestStart(r, tenant_id, kind, valid, raises) ==
    /\ running = 0
    /\ apiResp = NoResp
    /\ pc[r] = "idle"
    /\ req' = [req EXCEPT ![r] = [kind |-> kind, tenant_id |-> tenant_id]]
    /\ IF ~valid
       THEN /\ pc' = [pc EXCEPT ![r] = "rejected"]
            /\ UNCHANGED <<document, ingestion_progress, progress_callback, running,
                           rvars>>
       ELSE /\ progress_callback' = KeyOf(r)
            /\ ingestion_progress' =
                  UpdateProgressAll(ingestion_progress, KeyOf(r), StartCheckpoints, raises)
            /\ reported' = [reported EXCEPT ![r] = @ \o StartCheckpoints]
            /\ cb_failed' = [cb_failed EXCEPT ![r] = @ \/ Raised(StartCheckpoints, raises)]
            /\ document' = [document EXCEPT ![r] =
                              CreateDocumentRecord(DocIdOf(r), tenant_id, "processing")]
            /\ pc' = [pc EXCEPT ![r] = "load"]
            /\ running' = r
    /\ UNCHANGED <<evars, xvars, store, searchResp, docs, num_chunks, exc, apiResp, cancelled>>

\* Stage 1: progress 10, loader.load(), progress 30; ingest_text only wraps
\* the content in one Document, which cannot fail
Load(r, pages, ok, raises) ==
    /\ running = r
    /\ pc[r] = "load"
    /\ (req[r].kind = "text" => (ok /\ pages = 1))
    /\ LET loaded == ok /\ ~(req[r].kind = "url" /\ pages = 0)
           percents == LoadCheckpoints(loaded)
           e == StageOutcome(IF loaded THEN NoExc
                             ELSE IF ok THEN "Failed to load content from URL"
                             ELSE "load failed",
                             Raised(percents, raises))
       IN  /\ ingestion_progress' =
                 UpdateProgressAll(ingestion_progress, progress_callback, percents, raises)
           /\ reported' = [reported EXCEPT ![r] = @ \o percents]
           /\ cb_failed' = [cb_failed EXCEPT ![r] = @ \/ Raised(percents, raises)]
           /\ exc' = [exc EXCEPT ![r] = e]
           /\ pc' = [pc EXCEPT ![r] = NextStage("chunk", e)]
           /\ docs' = IF e = NoExc THEN [docs EXCEPT ![r] = pages] ELSE docs
    /\ UNCHANGED <<evars, xvars, store, searchResp, req, document, num_chunks, progress_callback,
                   running, apiResp, cancelled>>

\* Stage 2: progress 35, chunk every loaded page, progress 60
Chunk(r, n, ok, raises) ==
    /\ running = r
    /\ pc[r] = "chunk"
    /\ (docs[r] = 0 => n = 0)
    /\ LET percents == ChunkCheckpoints(ok)
           e == StageOutcome(IF ok THEN NoExc ELSE "chunk failed",
                             Raised(percents, raises))
       IN  /\ ingestion_progress' =
                 UpdateProgressAll(ingestion_progress, progress_callback, percents, raises)
           /\ reported' = [reported EXCEPT ![r] = @ \o percents]
           /\ cb_failed' = [cb_failed EXCEPT ![r] = @ \/ Raised(percents, raises)]
           /\ exc' = [exc EXCEPT ![r] = e]
           /\ pc' = [pc EXCEPT ![r] = NextStage("embed", e)]
           /\ num_chunks' = IF e = NoExc THEN [num_chunks EXCEPT ![r] = n] ELSE num_chunks
    /\ UNCHANGED <<evars, xvars, store, searchResp, req, document, docs, progress_callback,
                   running, apiResp, cancelled>>

\* Stage 3 begins: progress 65, then batch_embed; with no chunk batch_embed
\* returns at once (progress 90), otherwise the run is suspended in the provider call
EmbedCall(r, raises) ==
    /\ running = r
    /\ pc[r] = "embed"
    /\ LET percents == EmbedCheckpoints(num_chunks[r])
       IN  /\ ingestion_progress' =
                 UpdateProgressAll(ingestion_progress, progress_callback, percents, raises)
           /\ reported' = [reported EXCEPT ![r] = @ \o percents]
           /\ cb_failed' = [cb_failed EXCEPT ![r] = @ \/ Raised(percents, raises)]
    /\ IF num_chunks[r] = 0
       THEN /\ pc' = [pc EXCEPT ![r] = "store"]
            /\ UNCHANGED running
       ELSE /\ pc' = [pc EXCEPT ![r] = "embedding"]
            /\ running' = 0
    /\ UNCHANGED <<evars, xvars, store, searchResp, req, document, docs, num_chunks, exc,
                   progress_callback, apiResp, cancelled>>

\* the provider call of batch_embed completes: progress 90, or the stage raises
EmbedReturn(r, ok, raises) ==
    /\ running = 0
    /\ apiResp = NoResp
    /\ pc[r] = "embedding"
    /\ running' = r
    /\ LET percents == EmbeddedCheckpoints(ok)
           e == StageOutcome(IF ok THEN NoExc ELSE "embed failed",
                             Raised(percents, raises))
       IN  /\ ingestion_progress' =
                 UpdateProgressAll(ingestion_progress, progress_callback, percents, raises)
           /\ reported' = [reported EXCEPT ![r] = @ \o percents]
           /\ cb_failed' = [cb_failed EXCEPT ![r] = @ \/ Raised(percents, raises)]
           /\ exc' = [exc EXCEPT ![r] = e]
           /\ pc' = [pc EXCEPT ![r] = NextStage("store", e)]
    /\ UNCHANGED <<evars, xvars, store, searchResp, req, document, docs, num_chunks,
                   progress_callback, apiResp, cancelled>>

\* Stage 4: progress 95, _store_chunks; on success status ready, chunk_count,
\* progress 100 and the handler returns the IngestionResponse. A failure
\* happens at some chunk index upto.
Store(r, upto, ok, raises) ==
    /\ running = r
    /\ pc[r] = "store"
    /\ upto <= num_chunks[r]
    /\ (ok => upto = num_chunks[r])
    /\ store' = StoreChunks(store, document[r].id, document[r].tenant_id, upto)
    /\ LET percents == StoreCheckpoints(ok)
           e == StageOutcome(IF ok THEN NoExc ELSE "store failed",
                             Raised(percents, raises))
       IN  /\ ingestion_progress' =
                 UpdateProgressAll(ingestion_progress, progress_callback, percents, raises)
           /\ reported' = [reported EXCEPT ![r] = @ \o percents]
           /\ cb_failed' = [cb_failed EXCEPT ![r] = @ \/ Raised(percents, raises)]
           /\ exc' = [exc EXCEPT ![r] = e]
           /\ pc' = [pc EXCEPT ![r] = NextStage("returned", e)]
           /\ IF e = NoExc
              THEN /\ document' = [document EXCEPT ![r] = MarkReady(@, num_chunks[r])]
                   /\ running' = 0
              ELSE UNCHANGED <<document, running>>
    /\ UNCHANGED <<evars, xvars, searchResp, req, docs, num_chunks, progress_callback, apiResp,
                   cancelled>>

\* except Exception: status error, error message on the document
Except(r) ==
    /\ running = r
    /\ pc[r] = "except"
    /\ document' = [document EXCEPT ![r] = MarkError(@, exc[r])]
    /\ pc' = [pc EXCEPT ![r] = "cleanup"]
    /\ UNCHANGED <<evars, xvars, rvars, store, searchResp, req, docs, num_chunks, exc, ingestion_progress,
                   progress_callback, running, apiResp, cancelled>>

\* _cleanup_failed_document, then raise: the handler answers HTTP 400 or 500
Raise(r) ==
    /\ running = r
    /\ pc[r] = "cleanup"
    /\ store' = CleanupFailedDocument(store, document[r])
    /\ pc' = [pc EXCEPT ![r] = "raised"]
    /\ running' = 0
    /\ UNCHANGED <<evars, xvars, rvars, searchResp, req, document, docs, num_chunks, exc,
                   ingestion_progress, progress_callback, apiResp, cancelled>>

\* GET /{document_id}/status
GetIngestionStatus(tenant_id, document_id) ==
    /\ running = 0
    /\ apiResp = NoResp
    /\ apiResp' = [kind |-> "status", tenant_id |-> tenant_id,
                   document_id |-> document_id, code |-> 200,
                   body |-> StatusBody(document_id)]
    /\ UNCHANGED <<evars, xvars, rvars, store, searchResp, pc, req, document, docs, num_chunks, exc,
                   ingestion_progress, progress_callback, running, cancelled>>

\* DELETE /{document_id}
CancelIngestion(tenant_id, document_id) ==
    /\ running = 0
    /\ apiResp = NoResp
    /\ IF document_id \in DOMAIN ingestion_progress
            /\ ingestion_progress[document_id] # Absent
       THEN /\ ingestion_progress' = [ingestion_progress EXCEPT ![document_id] = Absent]
            /\ cancelled' = cancelled \cup {document_id}
            /\ apiResp' = [kind |-> "cancel", tenant_id |-> tenant_id,
                           document_id |-> document_id, code |-> 200,
                           body |-> [document_id |-> document_id,
                                     status |-> "cancelled"]]
       ELSE /\ apiResp' = [kind |-> "cancel", tenant_id |-> tenant_id,
                           document_id |-> document_id, code |-> 404,
                           body |-> [document_id |-> document_id,
                                     status |-> "not found"]]
            /\ UNCHANGED <<ingestion_progress, cancelled>>
    /\ UNCHANGED <<evars, xvars, rvars, store, searchResp, pc, req, document, docs, num_chunks, exc,
                   progress_callback, running>>

\* the client receives the status or cancel response
ApiReturn ==
    /\ apiResp # NoResp
    /\ apiResp' = NoResp
    /\ UNCHANGED <<evars, xvars, rvars, store, searchResp, pc, req, document, docs, num_chunks, exc,
                   ingestion_progress, progress_callback, running, cancelled>>

\* the steps of a pipeline run after its start, with a progress callback
\* that may raise at the positions Raises
Stages(Raises) ==
    \/ \E r \in Runs, pages \in 0 .. 1, ok \in BOOLEAN, raises \in Raises :
          Load(r, pages, ok, raises)
    \/ \E r \in Runs, n \in 0 .. MaxDocChunks, ok \in BOOLEAN, raises \in Raises :
          Chunk(r, n, ok, raises)
    \/ \E r \in Runs, raises \in Raises : EmbedCall(r, raises)
    \/ \E r \in Runs, ok \in BOOLEAN, raises \in Raises : EmbedReturn(r, ok, raises)
    \/ \E r \in Runs, upto \in 0 .. MaxDocChunks, ok \in BOOLEAN, raises \in Raises :
          Store(r, upto, ok, raises)
    \/ \E r \in Runs : Except(r)
    \/ \E r \in Runs : Raise(r)

\* the callback the API registers stores a ProgressUpdate in a dict
StageNext == Stages({{}})

\* ingestion requests of every tenant and source kind
IngestNext ==
    \/ \E r \in Runs, t \in Tenants, k \in Kinds, valid \in BOOLEAN :
          IngestStart(r, t, k, valid, {})
    \/ StageNext

\* the tenant that sends request r when status and cancel requests are served too
RequestTenant(r) == IF r % 2 = 1 THEN "tA" ELSE "tB"

\* the callback request 1 registers may raise at any checkpoint; the other
\* requests register a callback that never raises
RaisesOf(callback) == IF callback = KeyOf(1) THEN CallbackRaises ELSE {{}}

\* the source kinds of the requests that run beside request 1
KindsOf(r) == IF r = 1 THEN Kinds ELSE {"pdf"}

\* ingestion requests with progress callbacks that may raise
ProgressNext ==
    \/ \E r \in Runs : \E k \in KindsOf(r), raises \in RaisesOf(KeyOf(r)) :
          IngestStart(r, RequestTenant(r), k, TRUE, raises)
    \/ Stages(RaisesOf(progress_callback))

\* ingestion requests together with status and cancel requests
ApiNext ==
    \/ \E r \in Runs, k \in {"pdf", "url"} :
          IngestStart(r, RequestTenant(r), k, TRUE, {})
    \/ StageNext
    \/ \E t \in Tenants, id \in ClientIds : GetIngestionStatus(t, id)
    \/ \E t \in Tenants, id \in ClientIds : CancelIngestion(t, id)
    \/ ApiReturn

\* ------------------------------------------------------------------------
\* _store_chunks called again: services/rag/ingestion.py
\* ------------------------------------------------------------------------

\* _store_chunks(document_id, tenant_id, chunks_with_embeddings) with n
\* (chunk, embedding) pairs, run to its end
StoreChunksCall(document_id, tenant_id, n) ==
    /\ Len(store_calls) < MaxStoreCalls
    /\ store' = StoreChunks(store, document_id, tenant_id, n)
    /\ store_calls' = Append(store_calls, [document_id |-> document_id,
                                           tenant_id |-> tenant_id, n |-> n])
    /\ UNCHANGED <<searchResp, ivars, evars, qvars, chunkCall, detectCall, fvars>>

StoreNext ==
    \E r \in Runs, tenant_id \in Tenants, n \in 0 .. MaxDocChunks :
        StoreChunksCall(DocIdOf(r), tenant_id, n)

\* ------------------------------------------------------------------------
\* Chunking: services/rag/chunking.py and the chunk loop of ingest_pdf
\* ------------------------------------------------------------------------

\* a text is a sequence of whitespace-separated tokens; of a token the
\* chunking code looks at whether it starts with a lowercase letter and at
\* the sentence ending (. or !) it ends with, "" when it ends with neither
TokenKinds == [lower : BOOLEAN, ending : {"", ".", "!"}]

TextsOf(n) == [1 .. n -> TokenKinds]

\* the sentence endings _ensure_sentence_boundary looks for, in its order
SentenceEndings == <<".", "!">>

\* what RecursiveCharacterTextSplitter.split_documents makes of a text of n
\* tokens: chunks of consecutive tokens that cover the text, each starting
\* and ending after the one before, with or without overlap
IsSplit(split, n) ==
    /\ split[1][1] = 1
    /\ split[Len(split)][2] = n
    /\ \A i \in 1 .. Len(split) : split[i][1] <= split[i][2]
    /\ \A i \in 1 .. Len(split) - 1 :
          /\ split[i][1] < split[i + 1][1]
          /\ split[i][2] < split[i + 1][2]
          /\ split[i + 1][1] <= split[i][2] + 1

SplitsOf(n) ==
    {split \in UNION {[1 .. k -> (1 .. n) \X (1 .. n)] : k \in 1 .. n} :
        IsSplit(split, n)}

\* the positions of the tokens of a chunk the splitter made
PositionsOf(range) == [i \in 1 .. range[2] - range[1] + 1 |-> range[1] + i - 1]

\* _has_mid_sentence_split: the content starts with a lowercase letter
HasMidSentenceSplit(text, content) ==
    Len(content) > 0 /\ text[content[1]].lower

\* content.rfind(ending + " ") with something after it: the last token with
\* this ending that another token follows, 0 when there is none
LastEnding(text, content, ending) ==
    LET found == {i \in 1 .. Len(content) - 1 : text[content[i]].ending = ending}
    IN  IF found = {} THEN 0
        ELSE CHOOSE i \in found : \A j \in found : j <= i

\* _ensure_sentence_boundary: the content up to the last match of the first
\* sentence ending that has one; without a match a full stop is appended
\* unless the content ends with an ending
EnsureSentenceBoundary(text, content) ==
    LET hits == {e \in 1 .. Len(SentenceEndings) :
                    LastEnding(text, content, SentenceEndings[e]) > 0}
    IN  IF hits # {}
        THEN LET e == CHOOSE e \in hits : \A f \in hits : e <= f
             IN  [content |-> SubSeq(content, 1,
                                     LastEnding(text, content, SentenceEndings[e])),
                  appended |-> ""]
        ELSE IF Len(content) > 0 /\ text[content[Len(content)]].ending = ""
        THEN [content |-> content, appended |-> "."]
        ELSE [content |-> content, appended |-> ""]

\* len() of a content: every token is one letter and its ending, tokens
\* are joined by one blank, and appended is what the repair put at the end
RECURSIVE TokenChars(_, _)
TokenChars(text, content) ==
    IF content = <<>> THEN 0
    ELSE (IF text[Head(content)].ending = "" THEN 1 ELSE 2)
            + TokenChars(text, Tail(content))

CharLen(text, content, appended) ==
    TokenChars(text, content)
       + (IF Len(content) > 0 THEN Len(content) - 1 ELSE 0)
       + (IF appended = "" THEN 0 ELSE 1)

\* chunk_text: chunk idx of the splitter's chunks, repaired when it starts
\* mid-sentence and is not the last, then enriched; word_count and
\* char_count are taken from the content before the repair
TextChunk(text, split, idx) ==
    LET content == PositionsOf(split[idx])
        repaired ==
            IF HasMidSentenceSplit(text, content) /\ idx < Len(split)
            THEN EnsureSentenceBoundary(text, content \o PositionsOf(split[idx + 1]))
            ELSE [content |-> content, appended |-> ""]
    IN  [page_content |-> repaired.content, appended |-> repaired.appended,
         source_type |-> "text", chunk_index |-> idx - 1,
         total_chunks |-> Len(split), word_count |-> Len(content),
         char_count |-> CharLen(text, content, "")]

ChunkTextResult(text, split) == [idx \in 1 .. Len(split) |-> TextChunk(text, split, idx)]

\* chunk_pdf of the page with this page_number that the splitter cuts into
\* k chunks
ChunkPdfResult(page_number, k) ==
    [idx \in 1 .. k |->
        [source_page_ref |-> page_number + 1, source_type |-> "pdf",
         chunk_index |-> idx - 1, total_chunks |-> k]]

\* the chunk loop of ingest_pdf run over the first n pages: chunks.extend
\* of the chunks of each page, in page order
RECURSIVE ExtendAll(_, _)
ExtendAll(pages, n) ==
    IF n = 0 THEN <<>>
    ELSE ExtendAll(pages, n - 1) \o ChunkPdfResult(n, pages[n])

\* the PDFs looked at: for each page the number of chunks the splitter
\* makes of it
PdfsOf(n) == [1 .. n -> 0 .. MaxPageChunks]

\* the inputs a new call may take
NextPdfs == IF chunkCall.pc = "idle" THEN UNION {PdfsOf(n) : n \in 1 .. MaxPages} ELSE {}

NextTextLengths == IF chunkCall.pc = "idle" THEN 1 .. MaxTokens ELSE {}

\* ingest_pdf, stage 2: every page the loader returned is chunked
ChunkPdfPages(pages) ==
    /\ chunkCall.pc = "idle"
    /\ chunkCall' = [pc |-> "done", source_type |-> "pdf", pages |-> pages,
                     chunks |-> ExtendAll(pages, Len(pages))]
    /\ UNCHANGED <<svars, ivars, evars, qvars, store_calls, detectCall, fvars>>

\* chunk_text(document) where the splitter cuts the text as split tells
ChunkText(text, split) ==
    /\ chunkCall.pc = "idle"
    /\ chunkCall' = [pc |-> "done", source_type |-> "text", text |-> text,
                     split |-> split, chunks |-> ChunkTextResult(text, split)]
    /\ UNCHANGED <<svars, ivars, evars, qvars, store_calls, detectCall, fvars>>

\* the caller takes the chunks
ChunkDone ==
    /\ chunkCall.pc = "done"
    /\ chunkCall' = [pc |-> "idle"]
    /\ UNCHANGED <<svars, ivars, evars, qvars, store_calls, detectCall, fvars>>

ChunkNext ==
    \/ \E pages \in NextPdfs : ChunkPdfPages(pages)
    \/ \E n \in NextTextLengths : \E text \in TextsOf(n), split \in SplitsOf(n) :
          ChunkText(text, split)
    \/ ChunkDone

\* ------------------------------------------------------------------------
\* Document type detection: services/rag/document_detector.py
\* ------------------------------------------------------------------------

\* confidences are hundredths
MagicNumberConfidence == 95

MimeTypeConfidence == 90

ExtensionConfidence == 70

ContentAnalysisConfidence == 60

Detected(type, confidence) == [type |-> type, confidence |-> confidence]

\* a bytes source: whether it has 10 bytes or more, the signature it starts
\* with, whether it decodes as UTF-8, whether it contains <html or <body
BytesSources ==
    [kind : {"bytes"}, long : BOOLEAN, signature : {"none", "pdf", "html"},
     utf8 : BOOLEAN, html_tag : BOOLEAN, content : {"plain"}]

\* a str source: empty, starting with an HTML tag, holding a Markdown line,
\* or plain
StrSources ==
    [kind : {"str"}, long : {TRUE}, signature : {"none"}, utf8 : {TRUE},
     html_tag : {FALSE}, content : {"empty", "html", "markdown", "plain"}]

Sources == BytesSources \cup StrSources

\* mime_type and file_extension arguments; "None" is the absent argument
MimeTypes ==
    {"None", "", "application/pdf", " TEXT/HTML ", "text/plain",
     "application/json", "application/javascript", "image/png"}

Extensions == {"None", "", "pdf", ".HTML", "txt", "bin"}

\* _detect_from_magic_number
DetectFromMagicNumber(content) ==
    IF ~content.long THEN Detected("text", 30)
    ELSE IF content.signature = "pdf" THEN Detected("pdf", MagicNumberConfidence)
    ELSE IF content.signature = "html" THEN Detected("html", MagicNumberConfidence)
    ELSE IF content.utf8
    THEN IF content.html_tag THEN Detected("html", 70) ELSE Detected("text", 60)
    ELSE Detected("text", 20)

\* _detect_from_mime_type, on mime_type.lower().strip()
DetectFromMimeType(mime_type) ==
    CASE mime_type = "application/pdf" -> Detected("pdf", MimeTypeConfidence)
      [] mime_type = " TEXT/HTML " -> Detected("html", MimeTypeConfidence)
      [] mime_type = "text/plain" -> Detected("text", MimeTypeConfidence)
      [] mime_type = "application/json" -> Detected("text", 70)
      [] mime_type = "application/javascript" -> Detected("text", 60)
      [] OTHER -> Detected("text", 30)

\* _detect_from_extension, on extension.lower().strip().lstrip(".")
DetectFromExtension(extension) ==
    CASE extension = "pdf" -> Detected("pdf", ExtensionConfidence)
      [] extension = ".HTML" -> Detected("html", ExtensionConfidence)
      [] extension = "txt" -> Detected("text", ExtensionConfidence)
      [] OTHER -> Detected("text", 40)

\* _detect_from_content
DetectFromContent(content) ==
    CASE content.content = "empty" -> Detected("text", 30)
      [] content.content = "html" -> Detected("html", ContentAnalysisConfidence)
      [] content.content = "markdown" -> Detected("text", 70)
      [] OTHER -> Detected("text", 50)

\* an argument that is None or empty is skipped
Given(argument) == argument \notin {"None", ""}

\* detect_type: the first tier whose confidence clears the tier's own
\* threshold, else the fallback
DetectType(source, mime_type, file_extension) ==
    IF source.kind = "bytes"
         /\ DetectFromMagicNumber(source).confidence >= MagicNumberConfidence
    THEN DetectFromMagicNumber(source)
    ELSE IF Given(mime_type)
              /\ DetectFromMimeType(mime_type).confidence >= MimeTypeConfidence
    THEN DetectFromMimeType(mime_type)
    ELSE IF Given(file_extension)
              /\ DetectFromExtension(file_extension).confidence >= ExtensionConfidence
    THEN DetectFromExtension(file_extension)
    ELSE IF source.kind = "str"
              /\ DetectFromContent(source).confidence >= ContentAnalysisConfidence
    THEN DetectFromContent(source)
    ELSE Detected("text", 50)

\* the sources a new call may take
NextSources == IF detectCall.pc = "idle" THEN Sources ELSE {}

\* detect_type(source, mime_type, file_extension)
DetectTypeCall(source, mime_type, file_extension) ==
    /\ detectCall.pc = "idle"
    /\ detectCall' = [pc |-> "done", source |-> source, mime_type |-> mime_type,
                      file_extension |-> file_extension,
                      result |-> DetectType(source, mime_type, file_extension)]
    /\ UNCHANGED <<svars, ivars, evars, qvars, store_calls, chunkCall, fvars>>

\* the caller takes the (type, confidence) pair
DetectDone ==
    /\ detectCall.pc = "done"
    /\ detectCall' = [pc |-> "idle"]
    /\ UNCHANGED <<svars, ivars, evars, qvars, store_calls, chunkCall, fvars>>

DetectNext ==
    \/ \E source \in NextSources, mime_type \in MimeTypes,
          file_extension \in Extensions :
          DetectTypeCall(source, mime_type, file_extension)
    \/ DetectDone

\* ------------------------------------------------------------------------
\* Citations: services/rag/citations.py
\* ------------------------------------------------------------------------

\* the characters of a chunk's content: a space or another character
Chars == {" ", "x"}

ContentsOf(n) == [1 .. n -> Chars]

\* the max_chars_per_chunk values build_context_with_citations is called with
MaxLengths == {5, 10}

Ellipsis == <<".", ".", ".">>

\* truncated.rfind(" "): the 0-based index of the last space, -1 without one
RFindSpace(truncated) ==
    LET spaces == {i \in 1 .. Len(truncated) : truncated[i] = " "}
    IN  IF spaces = {} THEN -1
        ELSE (CHOOSE i \in spaces : \A j \in spaces : j <= i) - 1

\* last_space > max_length * 0.8
WordBoundaryNear(last_space, max_length) == 10 * last_space > 8 * max_length

\* format_chunk_for_context(chunk, max_length)
FormatChunkForContext(content, max_length) ==
    IF Len(content) > max_length
    THEN LET truncated == SubSeq(content, 1, max_length)
             last_space == RFindSpace(truncated)
         IN  IF WordBoundaryNear(last_space, max_length)
             THEN SubSeq(truncated, 1, last_space) \o Ellipsis
             ELSE truncated \o Ellipsis
    ELSE content

\* the contents a new call may take
NextContentLengths == IF formatCall.pc = "idle" THEN 0 .. MaxContentLen ELSE {}

\* build_context_with_citations formats one chunk
FormatCall(content, max_chars_per_chunk) ==
    /\ formatCall.pc = "idle"
    /\ formatCall' = [pc |-> "done", content |-> content,
                      max_length |-> max_chars_per_chunk,
                      result |-> FormatChunkForContext(content, max_chars_per_chunk)]
    /\ UNCHANGED <<svars, ivars, evars, qvars, pvars, cosineCall, batchCall,
                   redis_keys, rlResp>>

FormatDone ==
    /\ formatCall.pc = "done"
    /\ formatCall' = [pc |-> "idle"]
    /\ UNCHANGED <<svars, ivars, evars, qvars, pvars, cosineCall, batchCall,
                   redis_keys, rlResp>>

FormatNext ==
    \/ \E n \in NextContentLengths : \E content \in ContentsOf(n),
          max_chars_per_chunk \in MaxLengths :
          FormatCall(content, max_chars_per_chunk)
    \/ FormatDone

\* ------------------------------------------------------------------------
\* cosine_similarity: services/rag/embeddings.py
\* ------------------------------------------------------------------------

\* np.float32 values: the integers up to the largest finite value, the two
\* infinities and NaN. F32Max stands for about 3.4e38 and Huge for a value
\* such as 1e20, whose square is beyond it.
F32Max == 1000

Huge == 100

PosInf == 100000

NegInf == -100000

IsInf(x) == x \in {PosInf, NegInf}

\* the result of an operation as float32 keeps it: beyond the largest
\* finite value it is an infinity
Overflow(x) == IF x > F32Max THEN PosInf ELSE IF x < -F32Max THEN NegInf ELSE x

Mul32(x, y) ==
    IF x = NaN \/ y = NaN THEN NaN
    ELSE IF IsInf(x) \/ IsInf(y)
    THEN IF x = 0 \/ y = 0 THEN NaN
         ELSE IF (x > 0) = (y > 0) THEN PosInf ELSE NegInf
    ELSE Overflow(x * y)

Add32(x, y) ==
    IF x = NaN \/ y = NaN THEN NaN
    ELSE IF IsInf(x) /\ IsInf(y) THEN (IF x = y THEN x ELSE NaN)
    ELSE IF IsInf(x) THEN x
    ELSE IF IsInf(y) THEN y
    ELSE Overflow(x + y)

\* np.dot(arr1, arr2) of two float32 arrays of equal length
RECURSIVE Dot32(_, _)
Dot32(arr1, arr2) ==
    IF arr1 = <<>> THEN 0
    ELSE Add32(Mul32(arr1[1], arr2[1]), Dot32(Tail(arr1), Tail(arr2)))

\* the components of the vectors looked at
Components == {-1, 0, 1, Huge, NaN}

Vectors == [1 .. CosineDims -> Components]

\* cosine_similarity(vec1, vec2). np.linalg.norm is the square root of
\* np.dot(arr, arr), so the norms are kept as their squares sq1 and sq2; the
\* returned float is num / sqrt(den_sq), or NaN.
CosineSimilarity(vec1, vec2) ==
    LET sq1 == Dot32(vec1, vec1)
        sq2 == Dot32(vec2, vec2)
        dot_product == Dot32(vec1, vec2)
    IN  IF sq1 = 0 \/ sq2 = 0
        THEN [nan |-> FALSE, num |-> 0, den_sq |-> 1, zero_norm |-> TRUE]
        ELSE IF sq1 = NaN \/ sq2 = NaN \/ dot_product = NaN
        THEN [nan |-> TRUE, num |-> 0, den_sq |-> 1, zero_norm |-> FALSE]
        ELSE IF IsInf(sq1) \/ IsInf(sq2)
        THEN IF IsInf(dot_product)
             THEN [nan |-> TRUE, num |-> 0, den_sq |-> 1, zero_norm |-> FALSE]
             ELSE [nan |-> FALSE, num |-> 0, den_sq |-> 1, zero_norm |-> FALSE]
        ELSE [nan |-> FALSE, num |-> dot_product, den_sq |-> sq1 * sq2,
              zero_norm |-> FALSE]

NextVectors == IF cosineCall.pc = "idle" THEN Vectors ELSE {}

CosineCall(vec1, vec2) ==
    /\ cosineCall.pc = "idle"
    /\ cosineCall' = [pc |-> "done", vec1 |-> vec1, vec2 |-> vec2,
                      result |-> CosineSimilarity(vec1, vec2)]
    /\ UNCHANGED <<svars, ivars, evars, qvars, pvars, formatCall, batchCall,
                   redis_keys, rlResp>>

CosineDone ==
    /\ cosineCall.pc = "done"
    /\ cosineCall' = [pc |-> "idle"]
    /\ UNCHANGED <<svars, ivars, evars, qvars, pvars, formatCall, batchCall,
                   redis_keys, rlResp>>

CosineNext ==
    \/ \E vec1 \in NextVectors, vec2 \in Vectors : CosineCall(vec1, vec2)
    \/ CosineDone

\* ------------------------------------------------------------------------
\* The embed and store stages of a run, chunk by chunk:
\* services/rag/ingestion.py and batch_embed of services/rag/embeddings.py
\* ------------------------------------------------------------------------

\* zip(chunks, all_embeddings): chunk i with the i-th embedding, as far as
\* both lists reach. Chunks are numbered 1 .. n; an embedding is named by the
\* chunk whose text the provider made it for, 0 for a vector beyond the
\* texts of the call
Zip(n, all_embeddings) ==
    [i \in 1 .. (IF n < Len(all_embeddings) THEN n ELSE Len(all_embeddings)) |->
        [chunk |-> i, embedding |-> all_embeddings[i]]]

\* [data.embedding for data in response.data] when the provider answers a
\* call for the texts batch_start+1 .. batch_end with k vectors
ResponseEmbeddings(batch_start, batch_end, k) ==
    [j \in 1 .. k |-> IF batch_start + j <= batch_end THEN batch_start + j ELSE 0]

\* stages 3 and 4 of a run with n chunks, once all_embeddings is complete:
\* batch_embed zips, _store_chunks is handed the pairs, the document is
\* marked ready with chunk_count = len(chunks)
Embedded(call, all_embeddings) ==
    [pc |-> "ready", n |-> call.n, batch_size |-> call.batch_size,
     chunks_with_embeddings |-> Zip(call.n, all_embeddings),
     chunk_count |-> call.n]

\* ingest_*: batch_embed(chunks) with n chunks; without chunks it returns []
\* at once, otherwise embed_texts sends the first batch
BatchEmbed(n, batch_size) ==
    /\ batchCall.pc = "idle"
    /\ batchCall' =
          IF n = 0
          THEN Embedded([n |-> 0, batch_size |-> batch_size], <<>>)
          ELSE [pc |-> "embedding", n |-> n, batch_size |-> batch_size,
                batch_start |-> 0, all_embeddings |-> <<>>]
    /\ UNCHANGED <<svars, ivars, evars, qvars, pvars, formatCall, cosineCall,
                   redis_keys, rlResp>>

\* the provider answers the call for the current batch with k vectors;
\* embed_texts validates each of them and goes on to the next batch, or
\* returns
BatchProviderReturns(k) ==
    /\ batchCall.pc = "embedding"
    /\ LET batch_end == BatchEnd(batchCall.batch_start, batchCall.batch_size, batchCall.n)
           all_embeddings ==
               batchCall.all_embeddings
                  \o ResponseEmbeddings(batchCall.batch_start, batch_end, k)
       IN  /\ k <= batch_end - batchCall.batch_start + 1
           /\ batchCall' =
                 IF batch_end < batchCall.n
                 THEN [batchCall EXCEPT !.batch_start = batch_end,
                                        !.all_embeddings = all_embeddings]
                 ELSE Embedded(batchCall, all_embeddings)
    /\ UNCHANGED <<svars, ivars, evars, qvars, pvars, formatCall, cosineCall,
                   redis_keys, rlResp>>

\* the handler returns the document
BatchDone ==
    /\ batchCall.pc = "ready"
    /\ batchCall' = [pc |-> "idle"]
    /\ UNCHANGED <<svars, ivars, evars, qvars, pvars, formatCall, cosineCall,
                   redis_keys, rlResp>>

BatchNext ==
    \/ \E n \in 0 .. MaxRunChunks, batch_size \in 1 .. MaxBatchSize :
          BatchEmbed(n, batch_size)
    \/ \E k \in 0 .. MaxBatchSize + 1 : BatchProviderReturns(k)
    \/ BatchDone

\* ------------------------------------------------------------------------
\* Rate limiting: middleware/rate_limit.py
\* ------------------------------------------------------------------------

\* self.limits["default"] with the "basic" multiplier 1.0, scaled down:
\* RateLimit requests per window of RateWindow seconds
RateLimit == 2

RateWindow == 2

\* the counters are looked at up to this count
MaxCount == 4

\* a key Redis holds without an expiry has this time to live
NoExpiry == -1

\* what _get_tenant_id yields for a request that names no tenant
NoTenant == ""

\* key = f"ratelimit:{tenant_id}:{endpoint_type}" of a default endpoint
RateKey(tenant_id) == "ratelimit:" \o tenant_id \o ":default"

\* self.redis.incr(key): the counter goes up by one; a key Redis did not
\* hold is created without an expiry
Incr(keys, key) ==
    [keys EXCEPT ![key] =
        [count |-> keys[key].count + 1,
         ttl |-> IF keys[key].count = 0 THEN NoExpiry ELSE keys[key].ttl]]

\* self.redis.expire(key, window)
Expire(keys, key, window) ==
    [keys EXCEPT ![key] = [count |-> keys[key].count, ttl |-> window]]

\* _is_rate_limited: incr, expire on the first request of a window, and
\* current > limit; a RedisError raised by either command is caught and the
\* request is let through. incr_ok and expire_ok tell which commands work.
IsRateLimited(keys, tenant_id, limit, window, incr_ok, expire_ok) ==
    LET key == RateKey(tenant_id)
        incremented == Incr(keys, key)
        current == incremented[key].count
    IN  IF ~incr_ok
        THEN [keys |-> keys, limited |-> FALSE]
        ELSE IF current = 1
        THEN IF expire_ok
             THEN [keys |-> Expire(incremented, key, window),
                   limited |-> current > limit]
             ELSE [keys |-> incremented, limited |-> FALSE]
        ELSE [keys |-> incremented, limited |-> current > limit]

\* _get_current_count: the counter read back, 0 on a RedisError
GetCurrentCount(keys, tenant_id, get_ok) ==
    IF get_ok THEN keys[RateKey(tenant_id)].count ELSE 0

\* __call__ for an HTTP request to a default endpoint: a request without a
\* tenant is passed on unchecked; a limited one is answered 429; any other
\* is passed on with the rate_limit headers
RateLimitCall(tenant_id, incr_ok, expire_ok, get_ok) ==
    /\ rlResp = NoResp
    /\ IF tenant_id = NoTenant
       THEN /\ rlResp' = [kind |-> "passed", tenant_id |-> NoTenant,
                          checked |-> FALSE]
            /\ UNCHANGED redis_keys
       ELSE /\ redis_keys[RateKey(tenant_id)].count < MaxCount
            /\ LET check == IsRateLimited(redis_keys, tenant_id, RateLimit,
                                          RateWindow, incr_ok, expire_ok)
               IN  /\ redis_keys' = check.keys
                   /\ rlResp' =
                         IF check.limited
                         THEN [kind |-> "429", tenant_id |-> tenant_id,
                               checked |-> TRUE]
                         ELSE [kind |-> "passed", tenant_id |-> tenant_id,
                               checked |-> TRUE,
                               remaining |-> RateLimit
                                   - GetCurrentCount(check.keys, tenant_id, get_ok)]
    /\ UNCHANGED <<svars, ivars, evars, qvars, pvars, formatCall, cosineCall,
                   batchCall>>

\* the response has been sent
RateLimitDone ==
    /\ rlResp # NoResp
    /\ rlResp' = NoResp
    /\ UNCHANGED <<svars, ivars, evars, qvars, pvars, formatCall, cosineCall,
                   batchCall, redis_keys>>

\* a second passes in Redis: keys with an expiry come closer to it, and a
\* key whose time is up is deleted
SecondPasses ==
    /\ rlResp = NoResp
    /\ \E key \in RateKeys : redis_keys[key].ttl > 0
    /\ redis_keys' =
          [key \in RateKeys |->
              IF redis_keys[key].ttl = 1 THEN NoKey
              ELSE IF redis_keys[key].ttl > 1
              THEN [redis_keys[key] EXCEPT !.ttl = redis_keys[key].ttl - 1]
              ELSE redis_keys[key]]
    /\ UNCHANGED <<svars, ivars, evars, qvars, pvars, formatCall, cosineCall,
                   batchCall, rlResp>>

RateNext ==
    \/ \E tenant_id \in Tenants \cup {NoTenant},
          incr_ok, expire_ok, get_ok \in BOOLEAN :
          RateLimitCall(tenant_id, incr_ok, expire_ok, get_ok)
    \/ RateLimitDone
    \/ SecondPasses

SpecSearch == Init /\ [][SearchNext]_vars

SpecIngest == Init /\ [][IngestNext]_vars

SpecApi == Init /\ [][ApiNext]_vars

SpecProgress == Init /\ [][ProgressNext]_vars

SpecEmbed == Init /\ [][EmbedNext]_vars

SpecQuery == Init /\ [][QueryNext]_vars

SpecStore == Init /\ [][StoreNext]_vars

SpecChunk == Init /\ [][ChunkNext]_vars

SpecDetect == Init /\ [][DetectNext]_vars

SpecFormat == Init /\ [][FormatNext]_vars

SpecCosine == Init /\ [][CosineNext]_vars

SpecBatch == Init /\ [][BatchNext]_vars

SpecRate == Init /\ [][RateNext]_vars

\* ------------------------------------------------------------------------
\* Properties of search
\* ------------------------------------------------------------------------

IsResult == searchResp.kind = "result"

\* position of the fetched candidate with primary key id
PosInResults(id) ==
    CHOOSE i \in 1 .. Len(searchResp.results) : searchResp.results[i].id = id

\* C1: every chunk a search of tenant A returns is a stored row whose
\* tenant_id is A, whatever the filters are, and every title the enrichment
\* attaches was read from a document whose tenant_id is A.
C1_TenantIsolation ==
    IsResult =>
       /\ \A i \in 1 .. Len(searchResp.chunks) :
             \E row \in store :
                /\ row.id = searchResp.chunks[i].id
                /\ row.tenant_id = searchResp.tenant_id
       /\ \A i \in 1 .. Len(searchResp.enriched_results) :
             LET c == searchResp.enriched_results[i]
             IN  c.document_title # "Unknown Document" =>
                    \E d \in Documents :
                       /\ d.id = c.document_id
                       /\ d.title = c.document_title
                       /\ d.tenant_id = searchResp.tenant_id

\* tenant tA searched with filters.document_ids naming tB's document while
\* tB holds a matching chunk of it, and got a chunk back
C1_Witness ==
    /\ IsResult
    /\ searchResp.tenant_id = "tA"
    /\ searchResp.filters.document_ids = {2}
    /\ Len(searchResp.chunks) > 0
    /\ \E row \in store :
          /\ row.tenant_id = "tB"
          /\ row.document_id = 2
          /\ row.embedding = QueryEmbedding

\* C8: each chunk a search returns has similarity >= similarity_threshold.
C8_AboveThreshold ==
    IsResult =>
       \A i \in 1 .. Len(searchResp.chunks) :
          searchResp.chunks[i].similarity >= searchResp.similarity_threshold

\* a search returned a chunk while the tenant also holds a chunk below the threshold
C8_Witness ==
    /\ IsResult
    /\ Len(searchResp.chunks) > 0
    /\ \E row \in store :
          /\ row.tenant_id = searchResp.tenant_id
          /\ row.embedding # NULL
          /\ Scale - Distance(row.embedding, QueryEmbedding)
                < searchResp.similarity_threshold

\* the tenant's rows that pass the request's filters with similarity >= threshold
Passing ==
    { row \in store :
        /\ row.tenant_id = searchResp.tenant_id
        /\ row.embedding # NULL
        /\ (searchResp.filters.document_ids # {}
              => row.document_id \in searchResp.filters.document_ids)
        /\ (searchResp.filters.source_types # {}
              => row.source_type \in searchResp.filters.source_types)
        /\ Scale - Distance(row.embedding, QueryEmbedding)
              >= searchResp.similarity_threshold }

\* C9: the threshold is inclusive: a tenant chunk whose similarity equals
\* similarity_threshold is returned when it is within the first max_results
\* (here: when no more than max_results chunks pass the threshold).
C9_ThresholdInclusive ==
    IsResult =>
       \A row \in Passing :
          ( /\ Scale - Distance(row.embedding, QueryEmbedding)
                  = searchResp.similarity_threshold
            /\ Cardinality(Passing) <= searchResp.max_results )
          => \E i \in 1 .. Len(searchResp.chunks) : searchResp.chunks[i].id = row.id

\* C10: the returned chunks are the fetched candidates that pass the
\* threshold, in the store's order, cut to the first max_results; they are in
\* non-increasing similarity order and equal similarities keep the store's order.
C10_StoreOrderKept ==
    IsResult =>
       LET chunks == searchResp.chunks
           results == searchResp.results
           thr == searchResp.similarity_threshold
       IN  /\ \A i \in 1 .. Len(chunks) :
                \E j \in 1 .. Len(results) :
                   /\ results[j].id = chunks[i].id
                   /\ results[j].similarity >= thr
           /\ \A i, j \in 1 .. Len(chunks) :
                i < j => /\ chunks[i].similarity >= chunks[j].similarity
                         /\ PosInResults(chunks[i].id) < PosInResults(chunks[j].id)
           /\ \A j \in 1 .. Len(results) :
                ( /\ results[j].similarity >= thr
                  /\ \A i \in 1 .. Len(chunks) : chunks[i].id # results[j].id )
                => /\ Len(chunks) = searchResp.max_results
                   /\ \A i \in 1 .. Len(chunks) : PosInResults(chunks[i].id) < j

\* three candidates were fetched, two of different similarity were returned
C10_Witness ==
    /\ IsResult
    /\ Len(searchResp.results) = 3
    /\ Len(searchResp.chunks) = 2
    /\ searchResp.chunks[1].similarity > searchResp.chunks[2].similarity

\* ------------------------------------------------------------------------
\* Properties of ingestion
\* ------------------------------------------------------------------------

UnknownBody(document_id) ==
    [document_id |-> document_id, status |-> "unknown", progress |-> 0,
     chunk_count |-> 0, error |-> "Document not found"]

\* C2: a status query of tenant A for an id that belongs to an ingestion of
\* another tenant (its progress key or its document id) is answered as for an
\* unknown document.
C2_StatusTenantScoped ==
    apiResp.kind = "status" =>
       \A r \in Runs :
          ( /\ req[r] # NoReq
            /\ req[r].tenant_id # apiResp.tenant_id
            /\ apiResp.document_id \in {KeyOf(r), DocIdOf(r)} )
          => apiResp.body = UnknownBody(apiResp.document_id)

AllowedTransitions ==
    { <<"pending", "processing">>, <<"processing", "ready">>,
      <<"processing", "error">> }

\* C3: in every ingestion run the document's status changes only along
\* pending -> processing, processing -> ready, processing -> error; nothing
\* leaves ready or error.
C3_StatusTransitions ==
    [][ \A r \in Runs :
           (document[r] # NoDoc /\ document'[r].status # document[r].status)
           => <<document[r].status, document'[r].status>> \in AllowedTransitions
      ]_vars

\* one run ended ready and another ended in error
C3_Witness ==
    \E r1, r2 \in Runs :
       /\ pc[r1] = "returned" /\ document[r1].status = "ready"
       /\ pc[r2] = "raised" /\ document[r2].status = "error"

C6_CancelStopsRun ==
    /\ [][ \A r \in Runs :
              ( /\ KeyOf(r) \in cancelled
                /\ pc[r] = "embedding"
                /\ pc'[r] # pc[r] )
              => /\ pc'[r] # "store"
                 /\ ingestion_progress' = ingestion_progress
         ]_vars
    /\ [] ( \A r \in Runs :
              (KeyOf(r) \in cancelled /\ pc[r] \in {"returned", "raised"})
              => ~ \E row \in store : row.document_id = document[r].id )

\* C7: a status query with the document_id an ingest call returned reports
\* that document: ready with its chunk_count once the run succeeded.
C7_StatusOfReturnedId ==
    apiResp.kind = "status" =>
       \A r \in Runs :
          ( /\ pc[r] = "returned"
            /\ apiResp.document_id = DocIdOf(r)
            /\ apiResp.tenant_id = req[r].tenant_id )
          => /\ apiResp.body.status = "ready"
             /\ apiResp.body.chunk_count = document[r].chunk_count

\* C11: a search with max_results = k returns at most k chunks, however many
\* candidates the store returned.
C11_AtMostMaxResults ==
    IsResult => Len(searchResp.chunks) <= searchResp.max_results

\* the store returned more candidates than max_results, all of them passing
\* the threshold, and exactly max_results chunks were returned
C11_Witness ==
    /\ IsResult
    /\ Len(searchResp.results) > searchResp.max_results
    /\ \A j \in 1 .. Len(searchResp.results) :
          searchResp.results[j].similarity >= searchResp.similarity_threshold
    /\ Len(searchResp.chunks) = searchResp.max_results

\* the tenant's rows with an embedding that pass the request's filters,
\* whatever their similarity is
InScope ==
    { row \in store :
        /\ row.tenant_id = searchResp.tenant_id
        /\ row.embedding # NULL
        /\ (searchResp.filters.document_ids # {}
              => row.document_id \in searchResp.filters.document_ids)
        /\ (searchResp.filters.source_types # {}
              => row.source_type \in searchResp.filters.source_types) }

C13_EmbedFailureDegrades ==
    [][ \A t \in Tenants, thr \in Thresholds, k \in 1 .. MaxResults,
          f \in FilterChoices :
          Search(t, thr, k, f, FALSE)
             => /\ searchResp'.kind = "result"
                /\ searchResp'.chunks = <<>> ]_vars

\* ------------------------------------------------------------------------
\* Properties of embedding generation
\* ------------------------------------------------------------------------

\* a text the validation loop of embed_texts rejects
IsBlank(text) == text = "" \/ Strip(text) = ""

RECURSIVE Flatten(_)
Flatten(ss) == IF ss = <<>> THEN <<>> ELSE ss[1] \o Flatten(Tail(ss))

\* C14: for one batch, when the provider has failed f times with a retryable
\* error and f < max_retries, embed_texts has not given up (it calls the
\* provider again), and when the provider then succeeds the batch's
\* embeddings are returned after exactly f + 1 provider calls.
C14_ReturnsAfterFPlusOne ==
    embedCall.pc \in {"call", "returned", "raised"} =>
       /\ provider.outcome.type = "ok"
             => provider.batch_calls = provider.batch_failures + 1
       /\ ( /\ provider.outcome \in RetryableErrors
            /\ provider.batch_failures < embedCall.max_retries )
             => embedCall.pc = "call"

\* C15: when a batch fails for good on retryable errors it has been retried
\* max_retries times after its first attempt, and the waits before the
\* first, second and third retry were 1s, 2s and 4s.
C15_RetriesAndDelays ==
    ( /\ embedCall.pc = "raised"
      /\ provider.outcome \in RetryableErrors ) =>
       /\ provider.batch_calls - 1 = embedCall.max_retries
       /\ Len(provider.sleeps) = embedCall.max_retries
       /\ \A i \in 1 .. Len(provider.sleeps) :
             i <= Len(RetryDelays) => provider.sleeps[i] = RetryDelays[i]

\* C16: for every max_retries >= 1, when embed_texts gives up on a batch whose
\* provider calls all failed with a retryable error, it has made at most
\* max_retries provider calls for it and raises the terminal failure that
\* names the attempt count, and no other error.
C16_TerminalFailure ==
    ( /\ embedCall.pc = "raised"
      /\ provider.outcome \in RetryableErrors ) =>
       /\ provider.batch_calls <= embedCall.max_retries
       /\ embedCall.error = TerminalError(embedCall.max_retries, provider.outcome)

C18_InvalidTextNoCall ==
    ( /\ embedCall.pc \in {"call", "returned", "raised"}
      /\ \E i \in 1 .. Len(embedCall.texts) : IsBlank(embedCall.texts[i]) ) =>
       /\ embedCall.pc = "raised"
       /\ embedCall.error.type = "ValueError"
       /\ \E i \in 1 .. Len(embedCall.texts) :
             /\ IsBlank(embedCall.texts[i])
             /\ \A j \in 1 .. i - 1 : ~IsBlank(embedCall.texts[j])
             /\ embedCall.error = InputError(embedCall.texts, i)
       /\ provider.num_calls = 0

\* the only blank text is the last one of a list longer than a batch
C18_Witness ==
    /\ embedCall.pc = "raised"
    /\ Len(embedCall.texts) > embedCall.batch_size
    /\ IsBlank(embedCall.texts[Len(embedCall.texts)])
    /\ \A j \in 1 .. Len(embedCall.texts) - 1 : ~IsBlank(embedCall.texts[j])
    /\ provider.num_calls = 0

\* C19: when no provider call failed, embed_texts on n texts has made
\* ceil(n / batch_size) provider calls, each with at most batch_size texts,
\* the inputs together being the (stripped) texts in input order, and it
\* returns n vectors, the i-th being what the validation makes of the
\* provider's vector for the i-th text: that vector itself when it has
\* `dimensions` finite components.
C19_BatchesInOrder ==
    ( /\ embedCall.pc = "returned"
      /\ provider.failures = 0 ) =>
       LET n == Len(embedCall.texts)
           b == embedCall.batch_size
       IN  /\ provider.num_calls = (n + b - 1) \div b
           /\ Len(provider.inputs) = provider.num_calls
           /\ \A c \in 1 .. Len(provider.inputs) :
                 Len(provider.inputs[c]) \in 1 .. b
           /\ Flatten(provider.inputs) = Map(Strip, embedCall.texts)
           /\ Len(embedCall.all_embeddings) = n
           /\ Len(provider.vectors) = n
           /\ \A i \in 1 .. n :
                 /\ provider.vectors[i]
                       = ProviderVector(Strip(embedCall.texts[i]), provider.shape)
                 /\ embedCall.all_embeddings[i]
                       = ValidatedEmbedding(provider.vectors[i])
                 /\ provider.shape = "ok"
                       => embedCall.all_embeddings[i] = provider.vectors[i]

\* three texts, not all the same, were embedded in two batches
C19_Witness ==
    /\ embedCall.pc = "returned"
    /\ provider.failures = 0
    /\ provider.shape = "ok"
    /\ Len(embedCall.texts) = 3
    /\ embedCall.batch_size = 2
    /\ embedCall.texts[1] # embedCall.texts[2]
    /\ provider.num_calls = 2

\* C20: every vector embed_texts returns has exactly `dimensions` components.
C20_ExactDimensions ==
    embedCall.pc = "returned" =>
       \A i \in 1 .. Len(embedCall.all_embeddings) :
          Len(embedCall.all_embeddings[i]) = Dimensions

\* ------------------------------------------------------------------
\* Properties of the query-embedding cache
\* ------------------------------------------------------------------

\* an embed_query call in progress or just completed
Called(t) == task[t].pc # "idle"

\* C21: an embed_query call for a query whose trimmed text was embedded
\* successfully by an earlier, completed call returns that same vector and
\* does not call the provider a second time.
C21_RepeatedQueryReturnsCached ==
    \A t \in Tasks :
        (Called(t) /\ task[t].found = "finished_ok") =>
            /\ task[t].pc = "returned"
            /\ task[t].result = QueryEmbeddingOf(task[t].key)
            /\ ~task[t].called_provider

\* C22: an embed_query call that starts while another call for the same
\* query text is suspended in its provider call does not raise.
C22_ConcurrentQueryCompletes ==
    \A t \in Tasks :
        (Called(t) /\ task[t].found = "suspended") => task[t].pc # "raised"

\* C23: the cache never holds more than maxsize entries; a miss on a full
\* cache drops exactly one entry and keeps the cache full; and an
\* embed_query for a query that was evicted misses the cache and calls the
\* provider again.
C23_CacheBounded ==
    /\ [](/\ Len(lru) <= CacheMaxSize
          /\ Cardinality(CacheKeys(lru)) = Len(lru)
          /\ \A t \in Tasks :
                (Called(t) /\ task[t].evicted_before) =>
                    task[t].found = "miss" /\ task[t].called_provider)
    /\ [][(Len(lru) = CacheMaxSize /\ CacheKeys(lru') # CacheKeys(lru)) =>
            /\ Len(lru') = CacheMaxSize
            /\ Cardinality(CacheKeys(lru) \ CacheKeys(lru')) = 1
            /\ CacheKeys(lru) \ CacheKeys(lru') \subseteq evictions']_vars

\* a query evicted from a full cache is asked again and reaches the provider
C23_Witness ==
    \E t \in Tasks :
        /\ task[t].pc = "awaiting"
        /\ task[t].evicted_before
        /\ task[t].called_provider
        /\ Len(lru) = CacheMaxSize

\* ------------------------------------------------------------------
\* Properties of the progress reports and the stage order of a run
\* ------------------------------------------------------------------

\* the percentages of a complete run
Checkpoints == <<5, 10, 30, 35, 60, 65, 90, 95, 100>>

IsPrefix(s, t) == Len(s) <= Len(t) /\ s = SubSeq(t, 1, Len(s))

StageErrors ==
    {"load failed", "Failed to load content from URL", "chunk failed",
     "embed failed", "store failed"}

\* the checkpoints a run at position p, failed with e, has passed
PassedCheckpoints(p, e) ==
    LET k == CASE p \in {"idle", "rejected"} -> 0
               [] p = "load" -> 1
               [] p = "chunk" -> 3
               [] p = "embed" -> 5
               [] p = "embedding" -> 6
               [] p = "store" -> 7
               [] p = "returned" -> 9
               [] e \in {"load failed", "Failed to load content from URL"} -> 2
               [] e = "chunk failed" -> 4
               [] e = "embed failed" -> 6
               [] OTHER -> 8
    IN  SubSeq(Checkpoints, 1, k)

\* C25: a run whose progress callback raised goes through the stages, and
\* ends in the status and with the chunk count, that the outcomes of its
\* load, chunk, embed and store stages alone determine: the callback's
\* exception is never the run's exception, the run that returns is ready
\* with all its chunks, and the run that raises failed in a stage.
C25_CallbackFailureIgnored ==
    \A r \in Runs :
        cb_failed[r] =>
            /\ exc[r] \in StageErrors \cup {NoExc}
            /\ reported[r] = PassedCheckpoints(pc[r], exc[r])
            /\ pc[r] \in {"except", "cleanup", "raised"} <=> exc[r] # NoExc
            /\ pc[r] = "returned" =>
                  /\ document[r].status = "ready"
                  /\ document[r].chunk_count = num_chunks[r]
            /\ pc[r] \in {"cleanup", "raised"} =>
                  /\ document[r].status = "error"
                  /\ document[r].metadata = exc[r]
            /\ store = {row \in store : row.document_id # document[r].id}

\* a run whose callback raised has stored its chunks and is ready
C25_Witness ==
    \E r \in Runs :
        /\ cb_failed[r]
        /\ pc[r] = "returned"
        /\ document[r].status = "ready"
        /\ document[r].chunk_count = MaxDocChunks

\* position of percent in the reports of run r, 0 when it was not reported
ReportedAt(r, percent) ==
    IF \E i \in 1 .. Len(reported[r]) : reported[r][i] = percent
    THEN CHOOSE i \in 1 .. Len(reported[r]) : reported[r][i] = percent
    ELSE 0

\* stage `started` began only after stage `finished` had completed
StartedAfter(r, started, finished) ==
    ReportedAt(r, started) > 0 =>
        /\ ReportedAt(r, finished) > 0
        /\ ReportedAt(r, finished) < ReportedAt(r, started)

\* C26: within a run chunking starts (35) only after loading has completed
\* (30), embedding (65) only after chunking has completed (60), storing (95)
\* only after embedding has completed (90); a run in which a stage raised
\* is in its except path, and from then on starts no stage and reports no
\* percentage.
C26_StagesInOrder ==
    /\ [](\A r \in Runs :
             /\ StartedAfter(r, 35, 30)
             /\ StartedAfter(r, 65, 60)
             /\ StartedAfter(r, 95, 90)
             /\ pc[r] \in {"chunk", "embed", "embedding", "store", "returned"} =>
                   exc[r] = NoExc
             /\ exc[r] # NoExc => pc[r] \in {"except", "cleanup", "raised"})
    /\ [][\A r \in Runs :
             exc[r] # NoExc =>
                 /\ reported'[r] = reported[r]
                 /\ docs'[r] = docs[r]
                 /\ num_chunks'[r] = num_chunks[r]
                 /\ exc'[r] = exc[r]]_vars

\* one run went through its four stages in order, another stopped when its
\* embedding stage raised
C26_Witness ==
    \E r, q \in Runs :
        /\ pc[r] = "returned"
        /\ num_chunks[r] > 0
        /\ exc[q] = "embed failed"
        /\ pc[q] = "raised"
        /\ reported[q] = SubSeq(Checkpoints, 1, 6)

\* ------------------------------------------------------------------
\* Properties of the store stage run again
\* ------------------------------------------------------------------

\* C27: after _store_chunks has run twice with the same document_id and the
\* same n chunks, the store holds exactly one chunk for each of the n chunk
\* indexes of that document: n rows of the document in all.
C27_RerunOneChunkPerIndex ==
    \A i, j \in 1 .. Len(store_calls) :
        (i < j /\ store_calls[i] = store_calls[j]) =>
            Cardinality({row \in store :
                            row.document_id = store_calls[i].document_id})
                = store_calls[i].n

\* ------------------------------------------------------------------
\* Properties of chunking
\* ------------------------------------------------------------------

\* C28: the chunks a run collects for one PDF, all pages included, carry
\* chunk_index 0, 1, ..., n-1 in order and total_chunks n, n being the
\* number of chunks collected.
C28_ContiguousChunkIndex ==
    (chunkCall.pc = "done" /\ chunkCall.source_type = "pdf") =>
        \A i \in 1 .. Len(chunkCall.chunks) :
            /\ chunkCall.chunks[i].chunk_index = i - 1
            /\ chunkCall.chunks[i].total_chunks = Len(chunkCall.chunks)

\* C29: every token of the text handed to chunk_text is in the content of
\* at least one returned chunk.
C29_NoTokenLost ==
    (chunkCall.pc = "done" /\ chunkCall.source_type = "text") =>
        \A p \in 1 .. Len(chunkCall.text) :
            \E i \in 1 .. Len(chunkCall.chunks) :
                \E k \in 1 .. Len(chunkCall.chunks[i].page_content) :
                    chunkCall.chunks[i].page_content[k] = p

\* ------------------------------------------------------------------
\* Properties of document type detection
\* ------------------------------------------------------------------

\* C30: detect_type on bytes that do not decode as UTF-8 and start with no
\* PDF or HTML signature, with no mime_type and no file_extension, returns
\* (text, 0.20).
C30_BinaryLowConfidence ==
    ( /\ detectCall.pc = "done"
      /\ detectCall.source.kind = "bytes"
      /\ ~detectCall.source.utf8
      /\ detectCall.source.signature = "none"
      /\ detectCall.mime_type = "None"
      /\ detectCall.file_extension = "None" )
    => detectCall.result = Detected("text", 20)

\* C31: detect_type on bytes that start with the PDF signature, of any
\* length, returns (pdf, 0.95) whatever mime_type and file_extension are.
C31_PdfSignatureWins ==
    ( /\ detectCall.pc = "done"
      /\ detectCall.source.kind = "bytes"
      /\ detectCall.source.signature = "pdf" )
    => detectCall.result = Detected("pdf", MagicNumberConfidence)

\* ------------------------------------------------------------------
\* Properties of citation formatting
\* ------------------------------------------------------------------

\* the cut the claim describes: at the last space of the first max_length
\* characters when it lies at most 20% of max_length before the cutoff
ClaimedCut(content, max_length) ==
    LET last_space == RFindSpace(SubSeq(content, 1, max_length))
    IN  IF last_space >= 0 /\ 10 * (max_length - last_space) <= 2 * max_length
        THEN last_space
        ELSE max_length

\* C32: content longer than max_chars_per_chunk is cut at the last space of
\* its first max_chars_per_chunk characters when that space lies at most 20%
\* of the limit before the cutoff, exactly 20% included, otherwise at the
\* limit, and ... is appended; shorter content is returned unchanged.
C32_TruncatesAtWordBoundary ==
    formatCall.pc = "done" =>
        formatCall.result =
            IF Len(formatCall.content) > formatCall.max_length
            THEN SubSeq(formatCall.content, 1,
                        ClaimedCut(formatCall.content, formatCall.max_length))
                 \o Ellipsis
            ELSE formatCall.content

\* ------------------------------------------------------------------
\* Properties of cosine_similarity
\* ------------------------------------------------------------------

\* a vector all of whose components are 0
IsZeroVector(v) == \A i \in 1 .. Len(v) : v[i] = 0

\* C33: cosine_similarity returns 0.0 when a vector has zero norm, and for
\* every other pair of vectors a value within [-1, 1].
C33_CosineInRange ==
    cosineCall.pc = "done" =>
        IF IsZeroVector(cosineCall.vec1) \/ IsZeroVector(cosineCall.vec2)
        THEN ~cosineCall.result.nan /\ cosineCall.result.num = 0
        ELSE /\ ~cosineCall.result.nan
             /\ cosineCall.result.num * cosineCall.result.num
                   <= cosineCall.result.den_sq

\* ------------------------------------------------------------------
\* Properties of concurrent requests to the ingestion API
\* ------------------------------------------------------------------

\* C34: a step in which a run reports progress changes no progress entry
\* but the one under the run's own key.
C34_ProgressUnderOwnKey ==
    [][ \A r \in Runs :
           Len(reported'[r]) > Len(reported[r]) =>
              \A key \in DOMAIN ingestion_progress :
                 key # KeyOf(r) => ingestion_progress'[key] = ingestion_progress[key]
      ]_vars

\* C37: a cancel request of tenant A for the progress key of an ingestion
\* tenant B started is answered 404 as for an unknown document, and the
\* step that serves it leaves the progress entry as it was.
C37_CancelTenantScoped ==
    /\ [] ( apiResp.kind = "cancel" =>
              \A r \in Runs :
                 ( /\ req[r] # NoReq
                   /\ req[r].tenant_id # apiResp.tenant_id
                   /\ apiResp.document_id = KeyOf(r) )
                 => apiResp.code = 404 )
    /\ [][ \A r \in Runs :
              ( /\ apiResp'.kind = "cancel"
                /\ apiResp.kind = "none"
                /\ req[r] # NoReq
                /\ req[r].tenant_id # apiResp'.tenant_id
                /\ apiResp'.document_id = KeyOf(r) )
              => ingestion_progress'[KeyOf(r)] = ingestion_progress[KeyOf(r)]
         ]_vars

\* C35: an embed_query call for a query whose earlier call failed in the
\* provider calls the provider again and does not fail on account of the
\* earlier failure.
C35_FailureNotCached ==
    \A t \in Tasks :
        (Called(t) /\ task[t].found = "finished_failed") =>
            /\ task[t].called_provider
            /\ task[t].error # CannotReuse

\* ------------------------------------------------------------------
\* Properties of the chunks handed to the store stage
\* ------------------------------------------------------------------

\* C36: when a run ends ready, chunk_count is the number of chunks handed to
\* the store stage, and these are the run's chunks, each once and each with
\* the embedding the provider made for its text.
C36_ChunkCountMatchesStored ==
    batchCall.pc = "ready" =>
        /\ batchCall.chunk_count = Len(batchCall.chunks_with_embeddings)
        /\ Len(batchCall.chunks_with_embeddings) = batchCall.n
        /\ \A i \in 1 .. Len(batchCall.chunks_with_embeddings) :
              /\ batchCall.chunks_with_embeddings[i].chunk = i
              /\ batchCall.chunks_with_embeddings[i].embedding = i

\* C38: every chunk the search hands on for citation carries the title of
\* its parent document whenever that document exists for the tenant.
C38_CitationCarriesDocumentTitle ==
    IsResult =>
       \A i \in 1 .. Len(searchResp.retrieved_chunks) :
          LET c == searchResp.retrieved_chunks[i]
          IN  \A d \in Documents :
                 (d.id = c.document_id /\ d.tenant_id = searchResp.tenant_id)
                    => c.document_title = d.title

\* C39: for every chunk chunk_text returns, char_count is the length of the
\* chunk's final content and word_count is its number of tokens, also when
\* the mid-sentence repair rewrote the content.
C39_CountsMatchFinalContent ==
    (chunkCall.pc = "done" /\ chunkCall.source_type = "text") =>
        \A i \in 1 .. Len(chunkCall.chunks) :
            LET c == chunkCall.chunks[i]
            IN  /\ c.word_count = Len(c.page_content)
                /\ c.char_count = CharLen(chunkCall.text, c.page_content, c.appended)

\* ------------------------------------------------------------------
\* Properties of rate limiting
\* ------------------------------------------------------------------

\* C40: every rate-limit counter key with a count of at least 1 has an
\* expiry, also after a check during which a Redis command failed.
C40_CountedKeyExpires ==
    \A key \in RateKeys :
        redis_keys[key].count >= 1 => redis_keys[key].ttl > 0

====
